---------------------------- MODULE Spec2Model ----------------------------
(***************************************************************************)
(* Session and token lifecycle of the authentication server               *)
(* (src/src/middleware/auth.ts): the users table as the only shared       *)
(* state, and every request handler split at its awaited store            *)
(* operations, so that concurrent requests interleave exactly where the   *)
(* code yields to the event loop.                                          *)
(*                                                                         *)
(* Time is counted in seconds (the resolution of the iat/exp fields of a  *)
(* signed token); several requests can be served within one second.       *)
(***************************************************************************)
EXTENDS Integers, FiniteSets, Sequences, TLC

(* ------------------------------ bounds -------------------------------- *)

\* Number of requests one behaviour serves.
MaxReq == 3

\* Number of times the clock advances in one behaviour.
MaxTicks == 2

\* Number of api() calls the browser has under way at a time.
MaxCalls == 1

(* ------------------------- program constants -------------------------- *)

\* expiresIn: "5m" of jwt.sign, in seconds.
JwtTTL == 300

\* 15 * 60 * 1000 ms added to Date.now() for refresh_token_expires_at, in
\* seconds.
RefreshTTL == 900

\* Faulty variant of AccessTTL: the access lifetime as long as the refresh lifetime.
AccessTTL_AsRefresh == RefreshTTL

\* 5 * 60 * 1000 ms added to Date.now() for access_token_expires_at, in
\* seconds.
AccessTTL == 300

(* ------------------------------ domains ------------------------------- *)

\* The ids of the registered accounts.
Users == {1, 2}

\* An email address that no account has.
UnknownEmail == 30

\* UserRole of each account (types/user.ts).
RoleOf(u) == IF u = 1 THEN "admin" ELSE "vendor"

UsernameOf(u) == u + 10

EmailOf(u) == u + 30

PasswordOf(u) == u + 20

WrongPassword == 0

\* The steps by which the clock advances: one second, one access lifetime,
\* one refresh lifetime.
Deltas == {1, AccessTTL, RefreshTTL}

ReqIds == 1 .. MaxReq

\* SQL NULL of a timestamp or of the uuid column.
NULL == -1

\* SQL NULL of the access_token column (same shape as a signed token).
NoToken == [id |-> 0, username |-> 0, email |-> 0, role |-> "none",
            iat |-> 0, exp |-> 0, key |-> "none"]

VARIABLES
    users,          \* the users table: id -> row
    now,            \* the clock, in seconds
    ticks,          \* how often the clock advanced
    nextUuid,       \* uuidv4(): the next value it returns
    req,            \* the requests: id -> handler state and response
    version,        \* history: id -> number of UPDATEs committed on the row
    issuedAccess,   \* history: every access token returned by jwt.sign
    issuedRefresh,  \* history: every <<refresh token, user id>> issued
    loggedOut,      \* history: tokens issued before a committed logout
    takenOver,      \* history: access tokens issued before a committed takeover
    takenOverRefresh, \* history: refresh tokens issued before a committed takeover
    rotated,        \* history: refresh tokens a committed refresh replaced
    nextId,         \* the serial of users.id: the id the next INSERT gets
    ls,             \* the browser's localStorage (frontend/src/api.js)
    call            \* the browser's api() calls: id -> position and outcome

vars == <<users, now, ticks, nextUuid, req, version, issuedAccess, issuedRefresh,
          loggedOut, takenOver, takenOverRefresh, rotated, nextId, ls, call>>

(* ------------------------- external primitives ------------------------ *)

\* bcrypt.hash: a one-way digest.
BcryptHash(p) == p + 100

\* bcrypt.compare(plain, digest).
BcryptCompare(p, h) == BcryptHash(p) = h

\* jwt.sign({id, username, email, role}, JWT_SECRET, {expiresIn: "5m"}) at
\* time t: the payload plus iat and exp, signed; deterministic in its inputs.
JwtSign(u, t) ==
    [id |-> u.id, username |-> u.username, email |-> u.email, role |-> u.role,
     iat |-> t, exp |-> t + JwtTTL, key |-> "JWT_SECRET"]

\* jwt.verify(token, JWT_SECRET) at time t: signature and embedded expiry.
JwtVerify(tok, t) == tok.key = "JWT_SECRET" /\ t < tok.exp

\* A token signed with another key (fails signature verification).
Forged(u) ==
    [id |-> u, username |-> UsernameOf(u), email |-> EmailOf(u),
     role |-> RoleOf(u), iat |-> 0, exp |-> 100000, key |-> "other"]

(* ------------------------------ the store ----------------------------- *)

\* Row after INSERT INTO users (...) at registration: session fields null.
NewRow(u) ==
    [id |-> u, username |-> UsernameOf(u), email |-> EmailOf(u),
     password |-> BcryptHash(PasswordOf(u)), role |-> RoleOf(u),
     is_logged_in |-> FALSE,
     access_token |-> NoToken, access_token_expires_at |-> NULL,
     refresh_token |-> NULL, refresh_token_expires_at |-> NULL,
     last_login |-> NULL]

\* SELECT * FROM users WHERE email = $1: the ids of the matching rows.
SelectByEmail(e) == {u \in DOMAIN users : users[u].email = e}

\* Faulty variant of SelectByAccessToken: the query without "AND access_token = $2".
SelectByAccessToken_IdOnly(id, tok) ==
    {u \in DOMAIN users :
        /\ users[u].id = id
        /\ users[u].access_token_expires_at /= NULL
        /\ users[u].access_token_expires_at > now}

\* SELECT ... FROM users WHERE id = $1 AND access_token = $2
\*   AND access_token_expires_at > NOW()
SelectByAccessToken(id, tok) ==
    {u \in DOMAIN users :
        /\ users[u].id = id
        /\ users[u].access_token /= NoToken
        /\ users[u].access_token = tok
        /\ users[u].access_token_expires_at /= NULL
        /\ users[u].access_token_expires_at > now}

\* Faulty variant of SelectByRefreshToken: the query without
\* "AND refresh_token_expires_at > NOW()".
SelectByRefreshToken_NoExpiry(rt) ==
    {u \in DOMAIN users :
        /\ users[u].refresh_token /= NULL
        /\ users[u].refresh_token = rt}

\* SELECT ... FROM users WHERE refresh_token = $1
\*   AND refresh_token_expires_at > NOW()
SelectByRefreshToken(rt) ==
    {u \in DOMAIN users :
        /\ users[u].refresh_token /= NULL
        /\ users[u].refresh_token = rt
        /\ users[u].refresh_token_expires_at /= NULL
        /\ users[u].refresh_token_expires_at > now}


\* Faulty variant of UpdateById: an upsert, which inserts a row with the id
\* when none has it.
UpdateById_Upsert(id, fields) ==
    [u \in DOMAIN users \cup {id} |->
        IF u = id
        THEN LET old == IF u \in DOMAIN users THEN users[u] ELSE NewRow(u)
             IN  [f \in DOMAIN old |->
                     IF f \in DOMAIN fields THEN fields[f] ELSE old[f]]
        ELSE users[u]]

\* Faulty variant of UpdateById: the UPDATE without its WHERE clause.
UpdateById_NoWhere(id, fields) ==
    [u \in DOMAIN users |->
        [f \in DOMAIN users[u] |->
            IF f \in DOMAIN fields THEN fields[f] ELSE users[u][f]]]

\* UPDATE users SET <fields> WHERE id = $n: no row is changed when none has
\* the id.
UpdateById(id, fields) ==
    [u \in DOMAIN users |->
        IF users[u].id = id
        THEN [f \in DOMAIN users[u] |->
                 IF f \in DOMAIN fields THEN fields[f] ELSE users[u][f]]
        ELSE users[u]]

\* Faulty variant of IssueFields: the UPDATE that stores a refresh expiry one
\* more refresh lifetime away.
IssueFields_LongRefresh(accessToken, accessExp, refreshToken, refreshExp) ==
    [access_token |-> accessToken,
     access_token_expires_at |-> accessExp,
     refresh_token |-> refreshToken,
     refresh_token_expires_at |-> refreshExp + RefreshTTL,
     is_logged_in |-> TRUE,
     last_login |-> now]

\* Faulty variant of IssueFields: the UPDATE without "last_login = NOW()".
IssueFields_NoLastLogin(accessToken, accessExp, refreshToken, refreshExp) ==
    [access_token |-> accessToken,
     access_token_expires_at |-> accessExp,
     refresh_token |-> refreshToken,
     refresh_token_expires_at |-> refreshExp,
     is_logged_in |-> TRUE]

\* The SET clause of the login and confirm-logout-login UPDATE.
IssueFields(accessToken, accessExp, refreshToken, refreshExp) ==
    [access_token |-> accessToken,
     access_token_expires_at |-> accessExp,
     refresh_token |-> refreshToken,
     refresh_token_expires_at |-> refreshExp,
     is_logged_in |-> TRUE,
     last_login |-> now]

\* Faulty variant of RotateFields: the UPDATE that renews the access token only and
\* leaves the stored refresh token in place.
RotateFields_KeepRefresh(newAccess, newAccessExp, newRefresh, newRefreshExp) ==
    [access_token |-> newAccess,
     access_token_expires_at |-> newAccessExp]

\* Faulty variant of RotateFields: the UPDATE of a refresh that also logs the user
\* in.
RotateFields_Relogin(newAccess, newAccessExp, newRefresh, newRefreshExp) ==
    [access_token |-> newAccess,
     access_token_expires_at |-> newAccessExp,
     refresh_token |-> newRefresh,
     refresh_token_expires_at |-> newRefreshExp,
     is_logged_in |-> TRUE,
     last_login |-> now]

\* The SET clause of the refresh-token UPDATE.
RotateFields(newAccess, newAccessExp, newRefresh, newRefreshExp) ==
    [access_token |-> newAccess,
     access_token_expires_at |-> newAccessExp,
     refresh_token |-> newRefresh,
     refresh_token_expires_at |-> newRefreshExp]

\* Faulty variant of LogoutFields: the UPDATE that clears the flag and leaves the
\* tokens in the row.
LogoutFields_FlagOnly == [is_logged_in |-> FALSE]

\* Faulty variant of LogoutFields: the UPDATE that also nulls last_login.
LogoutFields_ClearsLastLogin ==
    [access_token |-> NoToken, access_token_expires_at |-> NULL,
     refresh_token |-> NULL, refresh_token_expires_at |-> NULL,
     is_logged_in |-> FALSE, last_login |-> NULL]

\* The SET clause of the logout UPDATE.
LogoutFields ==
    [access_token |-> NoToken, access_token_expires_at |-> NULL,
     refresh_token |-> NULL, refresh_token_expires_at |-> NULL,
     is_logged_in |-> FALSE]

(* ------------------------- requests, responses ------------------------ *)

\* A request field that the client left out (!email, !password,
\* !refreshToken) and the value of a field that does not apply.
Missing == -2

NoUser == [id |-> 0, username |-> 0, email |-> 0, role |-> "none"]

\* The public fields of a row: what a handler keeps of the row it read.
PublicUser(row) ==
    [id |-> row.id, username |-> row.username, email |-> row.email,
     role |-> row.role]

\* A slot no request has taken yet.
IdleReq ==
    [kind |-> "none", pc |-> "idle", email |-> Missing, password |-> Missing,
     username |-> Missing, role |-> "", target |-> 0,
     token |-> NoToken, refreshToken |-> Missing,
     user |-> NoUser, wasLoggedIn |-> FALSE,
     readVersion |-> 0, wasRotated |-> FALSE, accessWasExpired |-> FALSE,
     threw |-> FALSE, stages |-> <<>>, sent |-> 0,
     status |-> 0, message |-> "", action |-> "",
     outAccess |-> NoToken, outRefresh |-> NULL, outUser |-> NoUser]

\* res.status(s).json({message: m}) and return: one more response is sent
\* and the request ends.
Respond(q, s, m) ==
    [q EXCEPT !.pc = "done", !.status = s, !.message = m, !.sent = @ + 1]

\* Faulty variant of StoreError: the catch block that sends the message of the error
\* it caught.
StoreError_Leaky(q) ==
    [q EXCEPT !.pc = "done", !.status = 500,
              !.message = "connect ECONNREFUSED 127.0.0.1:5432", !.threw = TRUE,
              !.sent = @ + 1]

\* The catch block of a handler and of authenticateToken, for a request q
\* whose awaited query rejected: console.error(err.message) and
\* res.status(500).send("Server error").
StoreError(q) ==
    [q EXCEPT !.pc = "done", !.status = 500, !.message = "Server error",
              !.threw = TRUE, !.sent = @ + 1]

\* Requests are numbered in the order in which they arrive.
Arrives(r) ==
    /\ req[r].pc = "idle"
    /\ \A q \in DOMAIN req : q < r => req[q].pc /= "idle"

\* What a client may put in the Authorization header: nothing, a token it
\* was issued, or a token that is not signed with the server's key.
PresentableTokens == {NoToken, Forged(1)} \cup issuedAccess

\* A uuid that uuidv4() never returned.
BogusUuid == 0

\* What a client may send as refreshToken: nothing, a token that was
\* issued, or a uuid that never was.
PresentableRefresh == {Missing, BogusUuid} \cup (1 .. (nextUuid - 1))

\* The (email, password) bodies clients send.
Credentials ==
    {<<Missing, PasswordOf(1)>>, <<UnknownEmail, PasswordOf(1)>>}
    \cup {<<EmailOf(u), WrongPassword>> : u \in Users}
    \cup {<<EmailOf(u), PasswordOf(u)>> : u \in Users}

(* ------------------------ authenticateToken --------------------------- *)

\* Faulty variant of AuthResult: the middleware that trusts the signature alone and
\* attaches the decoded payload, with no lookup in the store.
AuthResult_SignatureOnly(tok) ==
    IF tok = NoToken
    THEN [status |-> 401, message |-> "Authentication token required",
          user |-> NoUser, is_logged_in |-> FALSE,
          stages |-> <<"NoToken">>]
    ELSE IF ~JwtVerify(tok, now)
    THEN [status |-> 403, message |-> "Invalid or expired token",
          user |-> NoUser, is_logged_in |-> FALSE,
          stages |-> <<"NoToken", "SignatureCheck">>]
    ELSE [status |-> 200, message |-> "",
          user |-> [id |-> tok.id, username |-> tok.username,
                    email |-> tok.email, role |-> tok.role],
          is_logged_in |-> TRUE,
          stages |-> <<"NoToken", "SignatureCheck", "Authorized">>]

\* Faulty variant of AuthResult: the middleware that, once the store has
\* matched the token, attaches the identity decoded from the token.
AuthResult_TokenIdentity(tok) ==
    IF tok = NoToken
    THEN [status |-> 401, message |-> "Authentication token required",
          user |-> NoUser, is_logged_in |-> FALSE,
          stages |-> <<"NoToken">>]
    ELSE IF ~JwtVerify(tok, now)
    THEN [status |-> 403, message |-> "Invalid or expired token",
          user |-> NoUser, is_logged_in |-> FALSE,
          stages |-> <<"NoToken", "SignatureCheck">>]
    ELSE IF SelectByAccessToken(tok.id, tok) = {}
    THEN [status |-> 403, message |-> "Invalid or expired token",
          user |-> NoUser, is_logged_in |-> FALSE,
          stages |-> <<"NoToken", "SignatureCheck", "StoreMatch">>]
    ELSE [status |-> 200, message |-> "",
          user |-> [id |-> tok.id, username |-> tok.username,
                    email |-> tok.email, role |-> tok.role],
          is_logged_in |-> TRUE,
          stages |-> <<"NoToken", "SignatureCheck", "StoreMatch", "Authorized">>]

\* Faulty variant of AuthResult: the middleware that sends its query for
\* the token before it verifies the signature.
AuthResult_StoreFirst(tok) ==
    IF tok = NoToken
    THEN [status |-> 401, message |-> "Authentication token required",
          user |-> NoUser, is_logged_in |-> FALSE,
          stages |-> <<"NoToken">>]
    ELSE IF SelectByAccessToken(tok.id, tok) = {}
    THEN [status |-> 403, message |-> "Invalid or expired token",
          user |-> NoUser, is_logged_in |-> FALSE,
          stages |-> <<"NoToken", "StoreMatch">>]
    ELSE IF ~JwtVerify(tok, now)
    THEN [status |-> 403, message |-> "Invalid or expired token",
          user |-> NoUser, is_logged_in |-> FALSE,
          stages |-> <<"NoToken", "StoreMatch", "SignatureCheck">>]
    ELSE LET row == users[CHOOSE u \in SelectByAccessToken(tok.id, tok) : TRUE]
         IN  [status |-> 200, message |-> "",
              user |-> PublicUser(row), is_logged_in |-> row.is_logged_in,
              stages |-> <<"NoToken", "StoreMatch", "SignatureCheck", "Authorized">>]

\* The outcome of authenticateToken for the bearer token tok: the status it
\* responds with, or 200 and the identity it attaches before next(); and
\* the stages it went through, in order: the test for a token ("NoToken"),
\* jwt.verify ("SignatureCheck"), the query of the store ("StoreMatch"),
\* and req.user = row with next() ("Authorized").
AuthResult(tok) ==
    IF tok = NoToken
    THEN [status |-> 401, message |-> "Authentication token required",
          user |-> NoUser, is_logged_in |-> FALSE,
          stages |-> <<"NoToken">>]
    ELSE IF ~JwtVerify(tok, now)
    THEN [status |-> 403, message |-> "Invalid or expired token",
          user |-> NoUser, is_logged_in |-> FALSE,
          stages |-> <<"NoToken", "SignatureCheck">>]
    ELSE IF SelectByAccessToken(tok.id, tok) = {}
    THEN [status |-> 403, message |-> "Invalid or expired token",
          user |-> NoUser, is_logged_in |-> FALSE,
          stages |-> <<"NoToken", "SignatureCheck", "StoreMatch">>]
    ELSE LET row == users[CHOOSE u \in SelectByAccessToken(tok.id, tok) : TRUE]
         IN  [status |-> 200, message |-> "",
              user |-> PublicUser(row), is_logged_in |-> row.is_logged_in,
              stages |-> <<"NoToken", "SignatureCheck", "StoreMatch", "Authorized">>]

\* authenticateToken calls next() for tok.
Authorized(tok) == AuthResult(tok).status = 200

\* The refresh lookup finds a row for rt.
RefreshAccepted(rt) == rt /= Missing /\ SelectByRefreshToken(rt) /= {}


(* ----------------------------- the browser ---------------------------- *)

CallIds == 1 .. MaxCalls

\* localStorage with no accessToken and no refreshToken item.
NoItems == [accessToken |-> NoToken, refreshToken |-> NULL]

\* An api() call that has not started: the path it is for, whether it sends
\* the Authorization header (options.auth), the request it awaits, how many
\* times it sent the request for its path and how many refreshes it sent,
\* the status of the first response, and what it returned or threw.
IdleCall ==
    [pc |-> "idle", path |-> "", target |-> 0, auth |-> TRUE, res |-> 0,
     sends |-> 0, refreshes |-> 0, firstStatus |-> 0, firstMessage |-> "",
     ok |-> FALSE, error |-> ""]

\* What the server's handlers never touch.
browser == <<ls, call>>

(* ------------------------------- Init --------------------------------- *)

\* Both accounts are registered and no session exists.
Init ==
    /\ users = [u \in Users |-> NewRow(u)]
    /\ now = 0
    /\ ticks = 0
    /\ nextUuid = 1
    /\ req = [r \in ReqIds |-> IdleReq]
    /\ version = [u \in Users |-> 0]
    /\ issuedAccess = {}
    /\ issuedRefresh = {}
    /\ loggedOut = {}
    /\ takenOver = {}
    /\ takenOverRefresh = {}
    /\ rotated = {}
    /\ nextId = Cardinality(Users) + 1
    /\ ls = NoItems
    /\ call = [c \in CallIds |-> IdleCall]

\* The number of UPDATEs committed on each row after one more on row id.
Bump(id) == [u \in DOMAIN version |-> IF u = id THEN version[u] + 1 ELSE version[u]]

history == <<version, issuedAccess, issuedRefresh, loggedOut, takenOver,
             takenOverRefresh, rotated>>

\* Faulty variant of Tick: a clock whose advance sweeps the sessions whose
\* refresh token has expired.
Tick_Sweeping(d) ==
    /\ ticks < MaxTicks
    /\ now' = now + d
    /\ ticks' = ticks + 1
    /\ users' = [u \in DOMAIN users |->
          IF users[u].is_logged_in /\ users[u].refresh_token_expires_at <= now + d
          THEN [f \in DOMAIN users[u] |->
                   IF f \in DOMAIN LogoutFields THEN LogoutFields[f] ELSE users[u][f]]
          ELSE users[u]]
    /\ UNCHANGED <<nextUuid, nextId, req, history>>

\* Time passes.
Tick(d) ==
    /\ ticks < MaxTicks
    /\ now' = now + d
    /\ ticks' = ticks + 1
    /\ UNCHANGED <<users, nextUuid, nextId, req, history>>

(* ------------------------------ /login -------------------------------- *)

\* Faulty variant of LoginSelect: the login that goes on to issue tokens without the
\* is_logged_in test on the row that was read.
LoginSelect_NoConflictTest(r, e, p) ==
    /\ Arrives(r)
    /\ LET q == [IdleReq EXCEPT !.kind = "login", !.email = e, !.password = p]
           rows == SelectByEmail(e)
       IN  req' = [req EXCEPT ![r] =
             IF e = Missing \/ p = Missing
             THEN Respond(q, 400, "email and password are required")
             ELSE IF rows = {}
             THEN Respond(q, 400, "Invalid credentials")
             ELSE LET user == users[CHOOSE u \in rows : TRUE]
                  IN  IF ~BcryptCompare(p, user.password)
                      THEN Respond(q, 400, "Invalid credentials")
                      ELSE [q EXCEPT !.pc = "update",
                                     !.user = PublicUser(user),
                                     !.readVersion = version[user.id]]]
    /\ UNCHANGED <<users, now, ticks, nextUuid, nextId, history>>

\* Faulty variant of LoginSelect: the login that tells an unknown email apart from a
\* wrong password.
LoginSelect_UserNotFound(r, e, p) ==
    /\ Arrives(r)
    /\ LET q == [IdleReq EXCEPT !.kind = "login", !.email = e, !.password = p]
           rows == SelectByEmail(e)
       IN  req' = [req EXCEPT ![r] =
             IF e = Missing \/ p = Missing
             THEN Respond(q, 400, "email and password are required")
             ELSE IF rows = {}
             THEN Respond(q, 404, "User not found")
             ELSE LET user == users[CHOOSE u \in rows : TRUE]
                  IN  IF ~BcryptCompare(p, user.password)
                      THEN Respond(q, 400, "Invalid credentials")
                      ELSE IF user.is_logged_in
                      THEN [Respond(q, 409, "User already logged in on another device. Do you want to continue and logout the other session?")
                              EXCEPT !.action = "confirm_logout",
                                     !.outUser = PublicUser(user),
                                     !.wasLoggedIn = TRUE]
                      ELSE [q EXCEPT !.pc = "update",
                                     !.user = PublicUser(user),
                                     !.readVersion = version[user.id]]]
    /\ UNCHANGED <<users, now, ticks, nextUuid, nextId, history>>

\* Faulty variant of LoginSelect: the handler that stamps last_login on
\* the row when it answers 409.
LoginSelect_StampsConflict(r, e, p) ==
    /\ Arrives(r)
    /\ LET q == [IdleReq EXCEPT !.kind = "login", !.email = e, !.password = p]
           rows == SelectByEmail(e)
       IN  /\ req' = [req EXCEPT ![r] =
                IF e = Missing \/ p = Missing
                THEN Respond(q, 400, "email and password are required")
                ELSE IF rows = {}
                THEN Respond(q, 400, "Invalid credentials")
                ELSE LET user == users[CHOOSE u \in rows : TRUE]
                     IN  IF ~BcryptCompare(p, user.password)
                         THEN Respond(q, 400, "Invalid credentials")
                         ELSE IF user.is_logged_in
                         THEN [Respond(q, 409, "User already logged in on another device. Do you want to continue and logout the other session?")
                                 EXCEPT !.action = "confirm_logout",
                                        !.outUser = PublicUser(user),
                                        !.wasLoggedIn = TRUE]
                         ELSE [q EXCEPT !.pc = "update",
                                        !.user = PublicUser(user),
                                        !.readVersion = version[user.id]]]
           /\ users' = IF \E u \in rows : /\ BcryptCompare(p, users[u].password)
                                          /\ users[u].is_logged_in
                       THEN [u \in DOMAIN users |->
                               IF u \in rows
                               THEN [users[u] EXCEPT !.last_login = now]
                               ELSE users[u]]
                       ELSE users
    /\ UNCHANGED <<now, ticks, nextUuid, nextId, history>>

\* POST /login up to the UPDATE: field validation, the SELECT by email, the
\* password comparison and the is_logged_in test on the row that was read.
LoginSelect(r, e, p) ==
    /\ Arrives(r)
    /\ LET q == [IdleReq EXCEPT !.kind = "login", !.email = e, !.password = p]
           rows == SelectByEmail(e)
       IN  req' = [req EXCEPT ![r] =
             IF e = Missing \/ p = Missing
             THEN Respond(q, 400, "email and password are required")
             ELSE IF rows = {}
             THEN Respond(q, 400, "Invalid credentials")
             ELSE LET user == users[CHOOSE u \in rows : TRUE]
                  IN  IF ~BcryptCompare(p, user.password)
                      THEN Respond(q, 400, "Invalid credentials")
                      ELSE IF user.is_logged_in
                      THEN [Respond(q, 409, "User already logged in on another device. Do you want to continue and logout the other session?")
                              EXCEPT !.action = "confirm_logout",
                                     !.outUser = PublicUser(user),
                                     !.wasLoggedIn = TRUE]
                      ELSE [q EXCEPT !.pc = "update",
                                     !.user = PublicUser(user),
                                     !.readVersion = version[user.id]]]
    /\ UNCHANGED <<users, now, ticks, nextUuid, nextId, history>>

\* POST /login from the token generation on: jwt.sign, uuidv4, the two
\* expiries, the unconditional UPDATE ... WHERE id, and the response.
LoginUpdate(r) ==
    /\ req[r].kind = "login"
    /\ req[r].pc = "update"
    /\ LET user == req[r].user
           accessToken == JwtSign(user, now)
           refreshToken == nextUuid
           accessTokenExpiresAt == now + AccessTTL
           refreshTokenExpiresAt == now + RefreshTTL
       IN  /\ users' = UpdateById(user.id,
                 IssueFields(accessToken, accessTokenExpiresAt,
                             refreshToken, refreshTokenExpiresAt))
           /\ req' = [req EXCEPT ![r] =
                 [Respond(@, 200, "") EXCEPT !.outAccess = accessToken,
                                             !.outRefresh = refreshToken,
                                             !.outUser = user]]
           /\ issuedAccess' = issuedAccess \cup {accessToken}
           /\ issuedRefresh' = issuedRefresh \cup {<<refreshToken, user.id>>}
    /\ nextUuid' = nextUuid + 1
    /\ version' = Bump(req[r].user.id)
    /\ UNCHANGED <<now, ticks, nextId, loggedOut, takenOver, takenOverRefresh, rotated>>

(* ------------------------ /confirm-logout-login ----------------------- *)

\* Faulty variant of ConfirmSelect: the takeover that does not compare the
\* password.
ConfirmSelect_NoPasswordTest(r, e, p) ==
    /\ Arrives(r)
    /\ LET q == [IdleReq EXCEPT !.kind = "confirm", !.email = e, !.password = p]
           rows == SelectByEmail(e)
       IN  req' = [req EXCEPT ![r] =
             IF e = Missing \/ p = Missing
             THEN Respond(q, 400, "Email and password are required")
             ELSE IF rows = {}
             THEN Respond(q, 400, "Invalid credentials")
             ELSE LET user == users[CHOOSE u \in rows : TRUE]
                  IN  IF FALSE
                      THEN Respond(q, 400, "Invalid credentials")
                      ELSE [q EXCEPT !.pc = "update",
                                     !.user = PublicUser(user),
                                     !.wasLoggedIn = user.is_logged_in,
                                     !.readVersion = version[user.id]]]
    /\ UNCHANGED <<users, now, ticks, nextUuid, nextId, history>>

\* POST /confirm-logout-login up to the UPDATE: validation, SELECT by email
\* and password comparison; is_logged_in is not looked at.
ConfirmSelect(r, e, p) ==
    /\ Arrives(r)
    /\ LET q == [IdleReq EXCEPT !.kind = "confirm", !.email = e, !.password = p]
           rows == SelectByEmail(e)
       IN  req' = [req EXCEPT ![r] =
             IF e = Missing \/ p = Missing
             THEN Respond(q, 400, "Email and password are required")
             ELSE IF rows = {}
             THEN Respond(q, 400, "Invalid credentials")
             ELSE LET user == users[CHOOSE u \in rows : TRUE]
                  IN  IF ~BcryptCompare(p, user.password)
                      THEN Respond(q, 400, "Invalid credentials")
                      ELSE [q EXCEPT !.pc = "update",
                                     !.user = PublicUser(user),
                                     !.wasLoggedIn = user.is_logged_in,
                                     !.readVersion = version[user.id]]]
    /\ UNCHANGED <<users, now, ticks, nextUuid, nextId, history>>

\* POST /confirm-logout-login from the token generation on.
ConfirmUpdate(r) ==
    /\ req[r].kind = "confirm"
    /\ req[r].pc = "update"
    /\ LET user == req[r].user
           accessToken == JwtSign(user, now)
           refreshToken == nextUuid
           accessTokenExpiresAt == now + AccessTTL
           refreshTokenExpiresAt == now + RefreshTTL
       IN  /\ users' = UpdateById(user.id,
                 IssueFields(accessToken, accessTokenExpiresAt,
                             refreshToken, refreshTokenExpiresAt))
           /\ req' = [req EXCEPT ![r] =
                 [Respond(@, 200, "Previous session logged out. New session created.")
                     EXCEPT !.outAccess = accessToken,
                            !.outRefresh = refreshToken,
                            !.outUser = user]]
           /\ issuedAccess' = issuedAccess \cup {accessToken}
           /\ issuedRefresh' = issuedRefresh \cup {<<refreshToken, user.id>>}
           /\ takenOver' = takenOver \cup {t \in issuedAccess : t.id = user.id}
           /\ takenOverRefresh' = takenOverRefresh \cup
                 {x[1] : x \in {y \in issuedRefresh : y[2] = user.id}}
    /\ nextUuid' = nextUuid + 1
    /\ version' = Bump(req[r].user.id)
    /\ UNCHANGED <<now, ticks, nextId, loggedOut, rotated>>


(* --------------------------- /refresh-token --------------------------- *)

\* POST /refresh-token up to the UPDATE: validation and the SELECT by
\* refresh token and refresh expiry.
RefreshSelect(r, rt) ==
    /\ Arrives(r)
    /\ LET q == [IdleReq EXCEPT !.kind = "refresh", !.refreshToken = rt,
                                !.wasRotated = (rt \in rotated)]
           rows == SelectByRefreshToken(rt)
       IN  req' = [req EXCEPT ![r] =
             IF rt = Missing
             THEN Respond(q, 400, "Refresh token is required")
             ELSE IF rows = {}
             THEN Respond(q, 403, "Invalid or expired refresh token")
             ELSE LET user == users[CHOOSE u \in rows : TRUE]
                  IN  [q EXCEPT !.pc = "update",
                                !.user = PublicUser(user),
                                !.wasLoggedIn = user.is_logged_in,
                                !.accessWasExpired =
                                    (user.access_token_expires_at =< now),
                                !.readVersion = version[user.id]]]
    /\ UNCHANGED <<users, now, ticks, nextUuid, nextId, history>>

\* POST /refresh-token from the token generation on: a new access token and
\* a new uuid, the unconditional UPDATE ... WHERE id, and the response.
RefreshUpdate(r) ==
    /\ req[r].kind = "refresh"
    /\ req[r].pc = "update"
    /\ LET user == req[r].user
           newAccessToken == JwtSign(user, now)
           newRefreshToken == nextUuid
           newAccessTokenExpiresAt == now + AccessTTL
           newRefreshTokenExpiresAt == now + RefreshTTL
       IN  /\ users' = UpdateById(user.id,
                 RotateFields(newAccessToken, newAccessTokenExpiresAt,
                              newRefreshToken, newRefreshTokenExpiresAt))
           /\ req' = [req EXCEPT ![r] =
                 [Respond(@, 200, "") EXCEPT !.outAccess = newAccessToken,
                                             !.outRefresh = newRefreshToken]]
           /\ issuedAccess' = issuedAccess \cup {newAccessToken}
           /\ issuedRefresh' = issuedRefresh \cup {<<newRefreshToken, user.id>>}
           /\ rotated' = rotated \cup {req[r].refreshToken}
    /\ nextUuid' = nextUuid + 1
    /\ version' = Bump(req[r].user.id)
    /\ UNCHANGED <<now, ticks, nextId, loggedOut, takenOver, takenOverRefresh>>

(* ------------------------------ /logout ------------------------------- *)

\* Faulty variant of LogoutAuth: the middleware whose rejections lack the
\* return, so that it responds and goes on to next().
LogoutAuth_NoReturn(r, tok) ==
    /\ Arrives(r)
    /\ LET q == [IdleReq EXCEPT !.kind = "logout", !.token = tok]
           a == AuthResult(tok)
       IN  req' = [req EXCEPT ![r] =
             IF a.status /= 200
             THEN [Respond(q, a.status, a.message) EXCEPT
                      !.pc = "update", !.stages = a.stages \o <<"handler">>]
             ELSE [q EXCEPT !.pc = "update", !.user = a.user,
                            !.wasLoggedIn = a.is_logged_in,
                            !.readVersion = version[a.user.id],
                            !.stages = a.stages \o <<"handler">>]]
    /\ UNCHANGED <<users, now, ticks, nextUuid, nextId, history>>

\* POST /logout, the authenticateToken middleware: it responds itself or
\* attaches the identity and calls next().
LogoutAuth(r, tok) ==
    /\ Arrives(r)
    /\ LET q == [IdleReq EXCEPT !.kind = "logout", !.token = tok]
           a == AuthResult(tok)
       IN  req' = [req EXCEPT ![r] =
             IF a.status /= 200
             THEN [Respond(q, a.status, a.message) EXCEPT !.stages = a.stages]
             ELSE [q EXCEPT !.pc = "update", !.user = a.user,
                            !.wasLoggedIn = a.is_logged_in,
                            !.readVersion = version[a.user.id],
                            !.stages = a.stages \o <<"handler">>]]
    /\ UNCHANGED <<users, now, ticks, nextUuid, nextId, history>>

\* POST /logout, the handler: the UPDATE that nulls the session fields of
\* the row with the attached id, and the response.
LogoutUpdate(r) ==
    /\ req[r].kind = "logout"
    /\ req[r].pc = "update"
    /\ users' = UpdateById(req[r].user.id, LogoutFields)
    /\ req' = [req EXCEPT ![r] = Respond(@, 200, "Logged out successfully")]
    /\ loggedOut' = loggedOut \cup {t \in issuedAccess : t.id = req[r].user.id}
    /\ version' = Bump(req[r].user.id)
    /\ UNCHANGED <<now, ticks, nextId, nextUuid, issuedAccess, issuedRefresh,
                   takenOver, takenOverRefresh, rotated>>

(* --------------------------- /test-protected -------------------------- *)

\* GET /test-protected: authenticateToken, then the handler, which answers
\* in the same turn of the event loop.
Protected(r, tok) ==
    /\ Arrives(r)
    /\ LET q == [IdleReq EXCEPT !.kind = "protected", !.token = tok]
           a == AuthResult(tok)
       IN  req' = [req EXCEPT ![r] =
             IF a.status /= 200
             THEN [Respond(q, a.status, a.message) EXCEPT !.stages = a.stages]
             ELSE [Respond(q, 200, "Welcome") EXCEPT !.user = a.user,
                                                     !.outUser = a.user,
                                                     !.wasLoggedIn = a.is_logged_in,
                                                     !.stages = a.stages \o <<"handler">>]]
    /\ UNCHANGED <<users, now, ticks, nextUuid, nextId, history>>

(* ------------------------------- Next --------------------------------- *)

Next ==
    \/ \E d \in Deltas : Tick(d) /\ UNCHANGED browser
    \/ \E r \in ReqIds, c \in Credentials : LoginSelect(r, c[1], c[2]) /\ UNCHANGED browser
    \/ \E r \in ReqIds : LoginUpdate(r) /\ UNCHANGED browser
    \/ \E r \in ReqIds, c \in Credentials : ConfirmSelect(r, c[1], c[2]) /\ UNCHANGED browser
    \/ \E r \in ReqIds : ConfirmUpdate(r) /\ UNCHANGED browser
    \/ \E r \in ReqIds, rt \in PresentableRefresh : RefreshSelect(r, rt) /\ UNCHANGED browser
    \/ \E r \in ReqIds : RefreshUpdate(r) /\ UNCHANGED browser
    \/ \E r \in ReqIds, tok \in PresentableTokens : LogoutAuth(r, tok) /\ UNCHANGED browser
    \/ \E r \in ReqIds : LogoutUpdate(r) /\ UNCHANGED browser
    \/ \E r \in ReqIds, tok \in PresentableTokens : Protected(r, tok) /\ UNCHANGED browser

Spec == Init /\ [][Next]_vars


(* ----------------------------- requireRole ---------------------------- *)

\* requireAdmin = requireRole(['admin'])
RequireAdmin == {"admin"}

\* requireAdminOrModerator = requireRole(['admin', 'moderator'])
RequireAdminOrModerator == {"admin", "moderator"}

\* Faulty variant of RequireRole: the gate without the test for an attached
\* identity.
RequireRole_NoIdentityTest(roles, user) ==
    IF user /= NoUser /\ user.role \notin roles
    THEN [status |-> 403, message |-> "Insufficient permissions"]
    ELSE [status |-> 200, message |-> ""]

\* Faulty variant of RequireRole: the gate that only asks for an identity.
RequireRole_AnyRole(roles, user) ==
    IF user = NoUser
    THEN [status |-> 401, message |-> "Authentication required"]
    ELSE [status |-> 200, message |-> ""]

\* requireRole(roles) for the identity that authenticateToken attached
\* (NoUser: none): the status it responds with, or 200 for next().
RequireRole(roles, user) ==
    IF user = NoUser
    THEN [status |-> 401, message |-> "Authentication required"]
    ELSE IF user.role \notin roles
    THEN [status |-> 403, message |-> "Insufficient permissions"]
    ELSE [status |-> 200, message |-> ""]

\* Faulty variant of Gated: the chain whose role gate reads the role from
\* the payload of the token.
Gated_TokenRole(q, tok, roles) ==
    LET a == AuthResult(tok)
        g == RequireRole(roles, IF a.user = NoUser THEN NoUser
                                ELSE [a.user EXCEPT !.role = tok.role])
    IN  IF a.status /= 200
        THEN [Respond(q, a.status, a.message) EXCEPT !.stages = a.stages]
        ELSE IF g.status /= 200
        THEN [Respond(q, g.status, g.message) EXCEPT
                 !.user = a.user, !.wasLoggedIn = a.is_logged_in, !.stages = a.stages \o <<"requireRole">>]
        ELSE [q EXCEPT !.pc = "select", !.user = a.user,
                       !.wasLoggedIn = a.is_logged_in,
                       !.readVersion = version[a.user.id],
                       !.stages = a.stages \o <<"requireRole", "handler">>]

\* authenticateToken followed by requireRole(roles) for a request q with
\* bearer token tok: the response of whichever of the two answers, or q with
\* the identity attached and the handler at its first query.
Gated(q, tok, roles) ==
    LET a == AuthResult(tok)
        g == RequireRole(roles, a.user)
    IN  IF a.status /= 200
        THEN [Respond(q, a.status, a.message) EXCEPT !.stages = a.stages]
        ELSE IF g.status /= 200
        THEN [Respond(q, g.status, g.message) EXCEPT
                 !.user = a.user, !.wasLoggedIn = a.is_logged_in, !.stages = a.stages \o <<"requireRole">>]
        ELSE [q EXCEPT !.pc = "select", !.user = a.user,
                       !.wasLoggedIn = a.is_logged_in,
                       !.readVersion = version[a.user.id],
                       !.stages = a.stages \o <<"requireRole", "handler">>]

\* SELECT ... FROM users WHERE id = $1
SelectById(id) == {u \in DOMAIN users : users[u].id = id}

\* The :id parameters clients send.
Targets == Users

(* ---------------------------- GET /users/:id -------------------------- *)

\* GET /users/:id, the two middlewares: authenticateToken and
\* requireAdminOrModerator.
GetUserAuth(r, tok, id) ==
    /\ Arrives(r)
    /\ LET q == [IdleReq EXCEPT !.kind = "getUser", !.token = tok, !.target = id]
       IN  req' = [req EXCEPT ![r] = Gated(q, tok, RequireAdminOrModerator)]
    /\ UNCHANGED <<users, now, ticks, nextUuid, nextId, history>>

\* GET /users/:id, the handler: the SELECT by id and the response.
GetUserSelect(r) ==
    /\ req[r].kind = "getUser"
    /\ req[r].pc = "select"
    /\ LET rows == SelectById(req[r].target)
       IN  req' = [req EXCEPT ![r] =
             IF rows = {}
             THEN Respond(@, 404, "User not found.")
             ELSE [Respond(@, 200, "")
                     EXCEPT !.outUser = PublicUser(users[CHOOSE u \in rows : TRUE])]]
    /\ UNCHANGED <<users, now, ticks, nextUuid, nextId, history>>

(* --------------------------- DELETE /users/:id ------------------------ *)

\* DELETE /users/:id, the two middlewares: authenticateToken and
\* requireAdmin.
DeleteAuth(r, tok, id) ==
    /\ Arrives(r)
    /\ LET q == [IdleReq EXCEPT !.kind = "delete", !.token = tok, !.target = id]
       IN  req' = [req EXCEPT ![r] = Gated(q, tok, RequireAdmin)]
    /\ UNCHANGED <<users, now, ticks, nextUuid, nextId, history>>

\* Faulty variant of DeleteSelect: the handler without the test for the requester's
\* own id.
DeleteSelect_NoSelfTest(r) ==
    /\ req[r].kind = "delete"
    /\ req[r].pc = "select"
    /\ LET rows == SelectById(req[r].target)
       IN  req' = [req EXCEPT ![r] =
             IF rows = {}
             THEN Respond(@, 404, "User not found.")
             ELSE [@ EXCEPT !.pc = "delete",
                            !.outUser = PublicUser(users[CHOOSE u \in rows : TRUE])]]
    /\ UNCHANGED <<users, now, ticks, nextUuid, nextId, history>>

\* DELETE /users/:id, the handler up to the DELETE: the SELECT by id and the
\* test for the requester's own id.
DeleteSelect(r) ==
    /\ req[r].kind = "delete"
    /\ req[r].pc = "select"
    /\ LET rows == SelectById(req[r].target)
       IN  req' = [req EXCEPT ![r] =
             IF rows = {}
             THEN Respond(@, 404, "User not found.")
             ELSE IF req[r].user.id = req[r].target
             THEN Respond(@, 400, "You cannot delete your own account.")
             ELSE [@ EXCEPT !.pc = "delete",
                            !.outUser = PublicUser(users[CHOOSE u \in rows : TRUE])]]
    /\ UNCHANGED <<users, now, ticks, nextUuid, nextId, history>>

\* DELETE /users/:id, the DELETE FROM users WHERE id = $1 and the response.
DeleteCommit(r) ==
    /\ req[r].kind = "delete"
    /\ req[r].pc = "delete"
    /\ users' = [u \in DOMAIN users \ SelectById(req[r].target) |-> users[u]]
    /\ req' = [req EXCEPT ![r] = Respond(@, 200, "User deleted successfully")]
    /\ version' = Bump(req[r].target)
    /\ UNCHANGED <<now, ticks, nextUuid, nextId, issuedAccess, issuedRefresh,
                   loggedOut, takenOver, takenOverRefresh, rotated>>

(* ----------------------------- /register ------------------------------ *)

\* A role that is not one of validRoles.
InvalidRole == "root"

\* const validRoles: UserRole[]
ValidRoles == {"user", "admin", "moderator", "vendor"}

\* The (username, email, password, role) bodies clients send to /register:
\* each account's own data, a body without role, a body with a role that
\* does not exist, and the second account's email under the first account's
\* username.
RegisterBodies ==
    {<<UsernameOf(u), EmailOf(u), PasswordOf(u), RoleOf(u)>> : u \in Users}
    \cup {<<UsernameOf(1), EmailOf(1), PasswordOf(1), "">>,
          <<UsernameOf(1), EmailOf(1), PasswordOf(1), InvalidRole>>,
          <<UsernameOf(1), EmailOf(2), PasswordOf(2), RoleOf(2)>>}

\* SELECT 1 FROM users WHERE username = $1
SelectByUsername(n) == {u \in DOMAIN users : users[u].username = n}

\* Faulty variant of UniqueViolation: a users table without unique indexes
\* on email and username.
UniqueViolation_NoIndex(q) == FALSE

\* The users table rejects the INSERT of the body of request q: email and
\* username are globally unique, so a row with the same email or the same
\* username makes the statement fail.
UniqueViolation(q) ==
    \/ SelectByEmail(q.email) /= {}
    \/ SelectByUsername(q.username) /= {}

\* The table after INSERT INTO users (username, email, password, ..., role)
\* VALUES (...) for the body of request q: the row gets the next serial id,
\* and its session columns their defaults.
InsertUser(q) ==
    [u \in DOMAIN users \cup {nextId} |->
        IF u = nextId
        THEN [id |-> nextId, username |-> q.username, email |-> q.email,
              password |-> BcryptHash(q.password), role |-> q.role,
              is_logged_in |-> FALSE,
              access_token |-> NoToken, access_token_expires_at |-> NULL,
              refresh_token |-> NULL, refresh_token_expires_at |-> NULL,
              last_login |-> NULL]
        ELSE users[u]]

\* POST /register up to the second SELECT: the required fields, the role
\* validation and the SELECT by email.
RegisterSelectEmail(r, b) ==
    /\ Arrives(r)
    /\ LET q == [IdleReq EXCEPT !.kind = "register", !.username = b[1],
                                !.email = b[2], !.password = b[3],
                                !.role = b[4]]
       IN  req' = [req EXCEPT ![r] =
             IF b[1] = Missing \/ b[2] = Missing \/ b[3] = Missing \/ b[4] = ""
             THEN Respond(q, 400, "username, email, password, and role are required")
             ELSE IF b[4] \notin ValidRoles
             THEN Respond(q, 400, "Invalid role. Must be one of: user, admin, moderator, vendor")
             ELSE IF SelectByEmail(b[2]) /= {}
             THEN Respond(q, 409, "Email already exists")
             ELSE [q EXCEPT !.pc = "username"]]
    /\ UNCHANGED <<users, now, ticks, nextUuid, nextId, history>>

\* POST /register, the SELECT by username.
RegisterSelectUsername(r) ==
    /\ req[r].kind = "register"
    /\ req[r].pc = "username"
    /\ req' = [req EXCEPT ![r] =
          IF SelectByUsername(req[r].username) /= {}
          THEN Respond(@, 409, "Username already exists")
          ELSE [@ EXCEPT !.pc = "insert"]]
    /\ UNCHANGED <<users, now, ticks, nextUuid, nextId, history>>

\* POST /register from bcrypt.hash on: the INSERT ... RETURNING id,
\* username, email, role and the 201 response; the catch block when the
\* table rejects the INSERT.
RegisterInsert(r) ==
    /\ req[r].kind = "register"
    /\ req[r].pc = "insert"
    /\ IF UniqueViolation(req[r])
       THEN /\ req' = [req EXCEPT ![r] = StoreError(@)]
            /\ UNCHANGED <<users, nextId>>
       ELSE /\ users' = InsertUser(req[r])
            /\ nextId' = nextId + 1
            /\ req' = [req EXCEPT ![r] =
                  [Respond(@, 201, "User registered successfully")
                      EXCEPT !.outUser = PublicUser(users'[nextId])]]
    /\ UNCHANGED <<now, ticks, nextUuid, history>>

(* ------------------------------ POST /users --------------------------- *)

\* POST /users, the two middlewares: authenticateToken and requireAdmin.
CreateUserAuth(r, tok, b) ==
    /\ Arrives(r)
    /\ LET q == [IdleReq EXCEPT !.kind = "createUser", !.token = tok,
                                !.username = b[1], !.email = b[2],
                                !.password = b[3], !.role = b[4]]
       IN  req' = [req EXCEPT ![r] = Gated(q, tok, RequireAdmin)]
    /\ UNCHANGED <<users, now, ticks, nextUuid, nextId, history>>

\* POST /users, the handler up to its second SELECT: the required fields,
\* the role validation and the SELECT by email.
CreateUserSelectEmail(r) ==
    /\ req[r].kind = "createUser"
    /\ req[r].pc = "select"
    /\ req' = [req EXCEPT ![r] =
          IF \/ req[r].username = Missing \/ req[r].email = Missing
             \/ req[r].password = Missing \/ req[r].role = ""
          THEN Respond(@, 400, "username, email, password, and role are required")
          ELSE IF req[r].role \notin ValidRoles
          THEN Respond(@, 400, "Invalid role. Must be one of: user, admin, moderator, vendor")
          ELSE IF SelectByEmail(req[r].email) /= {}
          THEN Respond(@, 409, "Email already exists")
          ELSE [@ EXCEPT !.pc = "username"]]
    /\ UNCHANGED <<users, now, ticks, nextUuid, nextId, history>>

\* POST /users, the SELECT by username.
CreateUserSelectUsername(r) ==
    /\ req[r].kind = "createUser"
    /\ req[r].pc = "username"
    /\ req' = [req EXCEPT ![r] =
          IF SelectByUsername(req[r].username) /= {}
          THEN Respond(@, 409, "Username already exists")
          ELSE [@ EXCEPT !.pc = "insert"]]
    /\ UNCHANGED <<users, now, ticks, nextUuid, nextId, history>>

\* POST /users from bcrypt.hash on: the INSERT ... RETURNING and the 201
\* response; the catch block when the table rejects the INSERT.
CreateUserInsert(r) ==
    /\ req[r].kind = "createUser"
    /\ req[r].pc = "insert"
    /\ IF UniqueViolation(req[r])
       THEN /\ req' = [req EXCEPT ![r] = StoreError(@)]
            /\ UNCHANGED <<users, nextId>>
       ELSE /\ users' = InsertUser(req[r])
            /\ nextId' = nextId + 1
            /\ req' = [req EXCEPT ![r] =
                  [Respond(@, 201, "User created successfully")
                      EXCEPT !.outUser = PublicUser(users'[nextId])]]
    /\ UNCHANGED <<now, ticks, nextUuid, history>>

(* ------------------- registration and the round trip ------------------ *)

\* The requests of a behaviour in which a registration or a login comes
\* before the requests of interest: two more than MaxReq, so that one
\* behaviour has room for a registration, a login, a logout and two requests
\* to the protected route.
LongReqIds == 1 .. (MaxReq + 2)

\* The users table is empty and no request has arrived.
InitRoundTrip ==
    /\ users = [u \in {} |-> NewRow(u)]
    /\ now = 0
    /\ ticks = 0
    /\ nextUuid = 1
    /\ req = [r \in LongReqIds |-> IdleReq]
    /\ version = [u \in LongReqIds |-> 0]
    /\ issuedAccess = {}
    /\ issuedRefresh = {}
    /\ loggedOut = {}
    /\ takenOver = {}
    /\ takenOverRefresh = {}
    /\ rotated = {}
    /\ nextId = 1
    /\ ls = NoItems
    /\ call = [c \in CallIds |-> IdleCall]

\* Each account registers with its own data and logs in with its own
\* credentials.
OwnBodies == {<<UsernameOf(u), EmailOf(u), PasswordOf(u), RoleOf(u)>> : u \in Users}

OwnCredentials == {<<EmailOf(u), PasswordOf(u)>> : u \in Users}

\* The clock advancing by one access lifetime at a time.
LifetimeDeltas == {AccessTTL}

NextRoundTrip ==
    \/ \E d \in LifetimeDeltas : Tick(d) /\ UNCHANGED browser
    \/ \E r \in LongReqIds, b \in OwnBodies : RegisterSelectEmail(r, b) /\ UNCHANGED browser
    \/ \E r \in LongReqIds : RegisterSelectUsername(r) /\ UNCHANGED browser
    \/ \E r \in LongReqIds : RegisterInsert(r) /\ UNCHANGED browser
    \/ \E r \in LongReqIds, c \in OwnCredentials : LoginSelect(r, c[1], c[2]) /\ UNCHANGED browser
    \/ \E r \in LongReqIds : LoginUpdate(r) /\ UNCHANGED browser
    \/ \E r \in LongReqIds, tok \in issuedAccess : LogoutAuth(r, tok) /\ UNCHANGED browser
    \/ \E r \in LongReqIds : LogoutUpdate(r) /\ UNCHANGED browser
    \/ \E r \in LongReqIds, tok \in issuedAccess : Protected(r, tok) /\ UNCHANGED browser

SpecRoundTrip == InitRoundTrip /\ [][NextRoundTrip]_vars

(* --------------------------- the gated routes ------------------------- *)

\* Both accounts are registered, no session exists, and the behaviour has
\* room for the logins before the gated requests.
InitLong ==
    /\ users = [u \in Users |-> NewRow(u)]
    /\ now = 0
    /\ ticks = 0
    /\ nextUuid = 1
    /\ req = [r \in LongReqIds |-> IdleReq]
    /\ version = [u \in Users |-> 0]
    /\ issuedAccess = {}
    /\ issuedRefresh = {}
    /\ loggedOut = {}
    /\ takenOver = {}
    /\ takenOverRefresh = {}
    /\ rotated = {}
    /\ nextId = Cardinality(Users) + 1
    /\ ls = NoItems
    /\ call = [c \in CallIds |-> IdleCall]

\* What a client may put in the Authorization header of a gated request:
\* nothing, a token it was issued, or a token that is not signed with the
\* server's key.
BearerTokens == {NoToken, Forged(1)} \cup issuedAccess

NextGate ==
    \/ \E r \in LongReqIds, c \in OwnCredentials : LoginSelect(r, c[1], c[2]) /\ UNCHANGED browser
    \/ \E r \in LongReqIds : LoginUpdate(r) /\ UNCHANGED browser
    \/ \E r \in LongReqIds, tok \in BearerTokens, id \in Targets : GetUserAuth(r, tok, id) /\ UNCHANGED browser
    \/ \E r \in LongReqIds : GetUserSelect(r) /\ UNCHANGED browser
    \/ \E r \in LongReqIds, tok \in BearerTokens, id \in Targets : DeleteAuth(r, tok, id) /\ UNCHANGED browser
    \/ \E r \in LongReqIds : DeleteSelect(r) /\ UNCHANGED browser
    \/ \E r \in LongReqIds : DeleteCommit(r) /\ UNCHANGED browser

SpecGate == InitLong /\ [][NextGate]_vars

(* ------------------------- requireRole alone -------------------------- *)

\* The role lists the router builds gates from.
RoleLists == {RequireAdmin, RequireAdminOrModerator}

\* What req.user may hold when requireRole runs: nothing, or the identity of
\* a row.
Identities == {NoUser} \cup {PublicUser(users[u]) : u \in DOMAIN users}

\* requireRole(roles) run on a request whose req.user is user, with no
\* authenticateToken before it: it responds, or calls next() and the
\* handler is entered.
RequireRoleAlone(r, roles, user) ==
    /\ Arrives(r)
    /\ LET q == [IdleReq EXCEPT !.kind = "gate", !.user = user]
           g == RequireRole(roles, user)
       IN  req' = [req EXCEPT ![r] =
             IF g.status /= 200
             THEN [Respond(q, g.status, g.message) EXCEPT
                      !.stages = <<"requireRole">>]
             ELSE [q EXCEPT !.pc = "select",
                            !.stages = <<"requireRole", "handler">>]]
    /\ UNCHANGED <<users, now, ticks, nextUuid, nextId, history>>

NextRequireRole ==
    \E r \in LongReqIds, roles \in RoleLists, user \in Identities :
        RequireRoleAlone(r, roles, user) /\ UNCHANGED browser

SpecRequireRole == InitLong /\ [][NextRequireRole]_vars

(* --------------------- sessions of a deleted user --------------------- *)

\* The session routes next to DELETE /users/:id: logins, refreshes, logouts
\* and protected requests of both accounts with the credentials and tokens
\* they hold, before, during and after the deletion of a row.
NextDeleted ==
    \/ \E r \in LongReqIds, c \in OwnCredentials : LoginSelect(r, c[1], c[2]) /\ UNCHANGED browser
    \/ \E r \in LongReqIds : LoginUpdate(r) /\ UNCHANGED browser
    \/ \E r \in LongReqIds, rt \in 1 .. (nextUuid - 1) : RefreshSelect(r, rt) /\ UNCHANGED browser
    \/ \E r \in LongReqIds : RefreshUpdate(r) /\ UNCHANGED browser
    \/ \E r \in LongReqIds, tok \in issuedAccess : LogoutAuth(r, tok) /\ UNCHANGED browser
    \/ \E r \in LongReqIds : LogoutUpdate(r) /\ UNCHANGED browser
    \/ \E r \in LongReqIds, tok \in issuedAccess : Protected(r, tok) /\ UNCHANGED browser
    \/ \E r \in LongReqIds, tok \in issuedAccess, id \in Targets : DeleteAuth(r, tok, id) /\ UNCHANGED browser
    \/ \E r \in LongReqIds : DeleteSelect(r) /\ UNCHANGED browser
    \/ \E r \in LongReqIds : DeleteCommit(r) /\ UNCHANGED browser

SpecDeleted == InitLong /\ [][NextDeleted]_vars

(* ---------------------------- /force-logout --------------------------- *)

\* UPDATE users SET <fields> WHERE email = $1
UpdateByEmail(e, fields) ==
    [u \in DOMAIN users |->
        IF users[u].email = e
        THEN [f \in DOMAIN users[u] |->
                 IF f \in DOMAIN fields THEN fields[f] ELSE users[u][f]]
        ELSE users[u]]

\* The number of UPDATEs committed on each row after one more on the rows
\* with email e.
BumpByEmail(e) ==
    [u \in DOMAIN version |->
        IF u \in SelectByEmail(e) THEN version[u] + 1 ELSE version[u]]

\* The email bodies clients send to /force-logout.
Emails == {Missing, UnknownEmail} \cup {EmailOf(u) : u \in Users}

\* POST /force-logout of routes/auth.ts: the body names an email and
\* nothing else; the UPDATE nulls the session fields of the rows with that
\* email.
ForceLogout(r, e) ==
    /\ Arrives(r)
    /\ LET q == [IdleReq EXCEPT !.kind = "forceLogout", !.email = e]
       IN  IF e = Missing
           THEN /\ req' = [req EXCEPT ![r] = Respond(q, 400, "Email is required")]
                /\ UNCHANGED <<users, version>>
           ELSE /\ req' = [req EXCEPT ![r] =
                      Respond(q, 200, "Previous session logged out successfully")]
                /\ users' = UpdateByEmail(e, LogoutFields)
                /\ version' = BumpByEmail(e)
    /\ UNCHANGED <<now, ticks, nextUuid, nextId, issuedAccess, issuedRefresh,
                   loggedOut, takenOver, takenOverRefresh, rotated>>

\* Every endpoint of the two routers on one users table.
NextForce ==
    \/ Next
    \/ \E r \in ReqIds, e \in Emails : ForceLogout(r, e) /\ UNCHANGED browser

SpecForce == Init /\ [][NextForce]_vars

(* ------------------------- the browser's api() ------------------------ *)

\* What the browser never touches directly.
server == <<users, now, ticks, nextUuid, nextId, req, history>>

\* throw new Error("Session expired. Please log in again.")
SessionExpired == "Session expired. Please log in again."

\* res.ok: the status is in the range 200-299.
Ok(status) == status >= 200 /\ status <= 299

\* The api() call k ends by throwing Error(m).
Throw(k, m) == [k EXCEPT !.pc = "done", !.error = m]

\* The api() call k ends by returning the body.
Return(k) == [k EXCEPT !.pc = "done", !.ok = TRUE]

\* The paths the browser calls with its access token.
Paths == {"/test-protected", "/users/:id"}

\* rawFetch(path) reaching the server as request r with bearer token tok:
\* the route's first step.
Fetch(r, path, target, tok) ==
    \/ path = "/test-protected" /\ Protected(r, tok)
    \/ path = "/users/:id" /\ GetUserAuth(r, tok, target)

\* AuthApi.login of account u: api("/login", {auth: false}), the first
\* rawFetch.
ApiLogin(c, r, u) ==
    /\ call[c].pc \in {"idle", "done"}
    /\ LoginSelect(r, EmailOf(u), PasswordOf(u))
    /\ call' = [call EXCEPT ![c] =
          [IdleCall EXCEPT !.pc = "first", !.path = "/login", !.auth = FALSE,
                           !.res = r, !.sends = 1]]
    /\ UNCHANGED ls

\* api(path): the first rawFetch, with the access token of localStorage.
ApiCall(c, r, path, target) ==
    /\ call[c].pc \in {"idle", "done"}
    /\ Fetch(r, path, target, ls.accessToken)
    /\ call' = [call EXCEPT ![c] =
          [IdleCall EXCEPT !.pc = "first", !.path = path, !.target = target,
                           !.res = r, !.sends = 1]]
    /\ UNCHANGED ls

\* api() when the first response is in: on 403 of a call with auth, throw
\* if localStorage has no refresh token and otherwise send the refresh; on
\* another status that is not ok, throw the message of the body; otherwise
\* return the body (and the login form stores the pair it got).
ApiFirstResponse(c) ==
    /\ call[c].pc = "first"
    /\ req[call[c].res].pc = "done"
    /\ LET q == req[call[c].res]
           k == [call[c] EXCEPT !.firstStatus = q.status,
                                !.firstMessage = q.message]
       IN  IF q.status = 403 /\ call[c].auth
           THEN IF ls.refreshToken = NULL
                THEN /\ call' = [call EXCEPT ![c] = Throw(k, SessionExpired)]
                     /\ UNCHANGED <<ls, server>>
                ELSE /\ \E r \in DOMAIN req :
                           /\ RefreshSelect(r, ls.refreshToken)
                           /\ call' = [call EXCEPT ![c] =
                                 [k EXCEPT !.pc = "refresh", !.res = r,
                                           !.refreshes = @ + 1]]
                     /\ UNCHANGED ls
           ELSE IF ~Ok(q.status)
           THEN /\ call' = [call EXCEPT ![c] = Throw(k, q.message)]
                /\ UNCHANGED <<ls, server>>
           ELSE /\ call' = [call EXCEPT ![c] = Return(k)]
                /\ ls' = IF call[c].path = "/login"
                         THEN [accessToken |-> q.outAccess,
                               refreshToken |-> q.outRefresh]
                         ELSE ls
                /\ UNCHANGED server

\* api() when the refresh response is in: if it is not ok, clearTokens and
\* throw; otherwise setTokens with the new pair and send the request for
\* the path again, once.
ApiRefreshResponse(c) ==
    /\ call[c].pc = "refresh"
    /\ req[call[c].res].pc = "done"
    /\ LET q == req[call[c].res]
       IN  IF ~Ok(q.status)
           THEN /\ ls' = NoItems
                /\ call' = [call EXCEPT ![c] = Throw(@, SessionExpired)]
                /\ UNCHANGED server
           ELSE /\ ls' = [accessToken |-> q.outAccess,
                          refreshToken |-> q.outRefresh]
                /\ \E r \in DOMAIN req :
                      /\ Fetch(r, call[c].path, call[c].target, q.outAccess)
                      /\ call' = [call EXCEPT ![c] =
                            [@ EXCEPT !.pc = "retry", !.res = r,
                                      !.sends = @ + 1]]

\* api() when the response to the second rawFetch is in: throw the message
\* of the body if it is not ok, return the body otherwise.
ApiRetryResponse(c) ==
    /\ call[c].pc = "retry"
    /\ req[call[c].res].pc = "done"
    /\ LET q == req[call[c].res]
       IN  call' = [call EXCEPT ![c] =
              IF ~Ok(q.status) THEN Throw(@, q.message) ELSE Return(@)]
    /\ UNCHANGED <<ls, server>>

\* Another device takes over the session of the account whose tokens the
\* browser holds: confirm-logout-login with that account's credentials.
OtherDeviceConfirm(r) ==
    /\ ls.accessToken /= NoToken
    /\ \E u \in Users :
          /\ ls.accessToken.id = u
          /\ ConfirmSelect(r, EmailOf(u), PasswordOf(u))

\* The account the browser asks for with GET /users/:id.
ShownUsers == {u \in Users : \A v \in Users : v <= u}

\* One browser, the server's own steps, and another device that takes a
\* session over.
NextClient ==
    \/ \E d \in LifetimeDeltas : Tick(d) /\ UNCHANGED browser
    \/ \E c \in CallIds, r \in LongReqIds, u \in Users : ApiLogin(c, r, u)
    \/ \E c \in CallIds, r \in LongReqIds, p \in Paths, id \in ShownUsers : ApiCall(c, r, p, id)
    \/ \E c \in CallIds : ApiFirstResponse(c)
    \/ \E c \in CallIds : ApiRefreshResponse(c)
    \/ \E c \in CallIds : ApiRetryResponse(c)
    \/ \E r \in LongReqIds : LoginUpdate(r) /\ UNCHANGED browser
    \/ \E r \in LongReqIds : RefreshUpdate(r) /\ UNCHANGED browser
    \/ \E r \in LongReqIds : GetUserSelect(r) /\ UNCHANGED browser
    \/ \E r \in LongReqIds : OtherDeviceConfirm(r) /\ UNCHANGED browser
    \/ \E r \in LongReqIds : ConfirmUpdate(r) /\ UNCHANGED browser

SpecClient == InitLong /\ [][NextClient]_vars

(* ---------------------- overlapping api() calls ----------------------- *)

\* The api() calls of a browser that has one more call under way.
OverlapCallIds == 1 .. (MaxCalls + 1)

\* The requests of a behaviour with a login and two calls that each send a
\* request, a refresh and the request again.
OverlapReqIds == 1 .. (MaxReq + 4)

\* Both accounts are registered, no session exists, and the browser has
\* started no call.
InitOverlap ==
    /\ users = [u \in Users |-> NewRow(u)]
    /\ now = 0
    /\ ticks = 0
    /\ nextUuid = 1
    /\ req = [r \in OverlapReqIds |-> IdleReq]
    /\ version = [u \in Users |-> 0]
    /\ issuedAccess = {}
    /\ issuedRefresh = {}
    /\ loggedOut = {}
    /\ takenOver = {}
    /\ takenOverRefresh = {}
    /\ rotated = {}
    /\ nextId = Cardinality(Users) + 1
    /\ ls = NoItems
    /\ call = [c \in OverlapCallIds |-> IdleCall]

\* The path the overlapping calls are for.
OverlapPaths == {"/test-protected"}

\* One browser with two api() calls under way at a time, and the server's
\* own steps.
NextOverlap ==
    \/ \E d \in LifetimeDeltas : Tick(d) /\ UNCHANGED browser
    \/ \E c \in OverlapCallIds, r \in OverlapReqIds, u \in ShownUsers : ApiLogin(c, r, u)
    \/ \E c \in OverlapCallIds, r \in OverlapReqIds, p \in OverlapPaths, id \in ShownUsers : ApiCall(c, r, p, id)
    \/ \E c \in OverlapCallIds : ApiFirstResponse(c)
    \/ \E c \in OverlapCallIds : ApiRefreshResponse(c)
    \/ \E c \in OverlapCallIds : ApiRetryResponse(c)
    \/ \E r \in OverlapReqIds : LoginUpdate(r) /\ UNCHANGED browser
    \/ \E r \in OverlapReqIds : RefreshUpdate(r) /\ UNCHANGED browser

SpecOverlap == InitOverlap /\ [][NextOverlap]_vars

(* --------------------------- store failures --------------------------- *)

\* authenticateToken gets as far as its query for tok: a token is present
\* and jwt.verify accepts it.
ReachesStoreMatch(tok) == tok /= NoToken /\ JwtVerify(tok, now)

\* The stages of authenticateToken when its query rejects.
StoreMatchThrew == <<"NoToken", "SignatureCheck", "StoreMatch">>

\* POST /login, the SELECT by email rejects.
LoginSelectFails(r, e, p) ==
    /\ Arrives(r)
    /\ e /= Missing /\ p /= Missing
    /\ req' = [req EXCEPT ![r] =
          StoreError([IdleReq EXCEPT !.kind = "login", !.email = e, !.password = p])]
    /\ UNCHANGED <<users, now, ticks, nextUuid, nextId, history>>

\* POST /confirm-logout-login, the SELECT by email rejects.
ConfirmSelectFails(r, e, p) ==
    /\ Arrives(r)
    /\ e /= Missing /\ p /= Missing
    /\ req' = [req EXCEPT ![r] =
          StoreError([IdleReq EXCEPT !.kind = "confirm", !.email = e, !.password = p])]
    /\ UNCHANGED <<users, now, ticks, nextUuid, nextId, history>>

\* POST /refresh-token, the SELECT by refresh token rejects.
RefreshSelectFails(r, rt) ==
    /\ Arrives(r)
    /\ rt /= Missing
    /\ req' = [req EXCEPT ![r] =
          StoreError([IdleReq EXCEPT !.kind = "refresh", !.refreshToken = rt])]
    /\ UNCHANGED <<users, now, ticks, nextUuid, nextId, history>>

\* POST /logout, the query of authenticateToken rejects.
LogoutAuthFails(r, tok) ==
    /\ Arrives(r)
    /\ ReachesStoreMatch(tok)
    /\ req' = [req EXCEPT ![r] =
          StoreError([IdleReq EXCEPT !.kind = "logout", !.token = tok,
                                     !.stages = StoreMatchThrew])]
    /\ UNCHANGED <<users, now, ticks, nextUuid, nextId, history>>

\* GET /test-protected, the query of authenticateToken rejects.
ProtectedFails(r, tok) ==
    /\ Arrives(r)
    /\ ReachesStoreMatch(tok)
    /\ req' = [req EXCEPT ![r] =
          StoreError([IdleReq EXCEPT !.kind = "protected", !.token = tok,
                                     !.stages = StoreMatchThrew])]
    /\ UNCHANGED <<users, now, ticks, nextUuid, nextId, history>>

\* The UPDATE of a login, a confirm-logout-login, a refresh or a logout
\* rejects: the statement has no effect and the handler's catch block
\* answers; the pair that was generated for it is dropped.
UpdateFails(r) ==
    /\ req[r].kind \in {"login", "confirm", "refresh", "logout"}
    /\ req[r].pc = "update"
    /\ req' = [req EXCEPT ![r] = StoreError(@)]
    /\ UNCHANGED <<users, now, ticks, nextUuid, nextId, history>>

\* The session operations on a store whose queries may reject.
NextFail ==
    \/ Next
    \/ \E r \in ReqIds, c \in OwnCredentials : LoginSelectFails(r, c[1], c[2]) /\ UNCHANGED browser
    \/ \E r \in ReqIds, c \in OwnCredentials : ConfirmSelectFails(r, c[1], c[2]) /\ UNCHANGED browser
    \/ \E r \in ReqIds, rt \in 1 .. (nextUuid - 1) : RefreshSelectFails(r, rt) /\ UNCHANGED browser
    \/ \E r \in ReqIds, tok \in issuedAccess : LogoutAuthFails(r, tok) /\ UNCHANGED browser
    \/ \E r \in ReqIds, tok \in issuedAccess : ProtectedFails(r, tok) /\ UNCHANGED browser
    \/ \E r \in ReqIds : UpdateFails(r) /\ UNCHANGED browser

SpecFail == Init /\ [][NextFail]_vars

\* The awaited query of request r settles and the handler runs on from it:
\* the UPDATE commits, or it rejects and the catch block runs.
Settles(r) ==
    \/ LoginUpdate(r) /\ UNCHANGED browser
    \/ ConfirmUpdate(r) /\ UNCHANGED browser
    \/ RefreshUpdate(r) /\ UNCHANGED browser
    \/ LogoutUpdate(r) /\ UNCHANGED browser
    \/ UpdateFails(r) /\ UNCHANGED browser

\* The session operations with the requests of clients that hold what they
\* were issued, on a store whose queries may reject.
NextLive ==
    \/ \E d \in LifetimeDeltas : Tick(d) /\ UNCHANGED browser
    \/ \E r \in ReqIds, c \in OwnCredentials : LoginSelect(r, c[1], c[2]) /\ UNCHANGED browser
    \/ \E r \in ReqIds, c \in OwnCredentials : ConfirmSelect(r, c[1], c[2]) /\ UNCHANGED browser
    \/ \E r \in ReqIds, rt \in 1 .. (nextUuid - 1) : RefreshSelect(r, rt) /\ UNCHANGED browser
    \/ \E r \in ReqIds, tok \in BearerTokens : LogoutAuth(r, tok) /\ UNCHANGED browser
    \/ \E r \in ReqIds, tok \in BearerTokens : Protected(r, tok) /\ UNCHANGED browser
    \/ \E r \in ReqIds, c \in OwnCredentials : LoginSelectFails(r, c[1], c[2]) /\ UNCHANGED browser
    \/ \E r \in ReqIds, c \in OwnCredentials : ConfirmSelectFails(r, c[1], c[2]) /\ UNCHANGED browser
    \/ \E r \in ReqIds, rt \in 1 .. (nextUuid - 1) : RefreshSelectFails(r, rt) /\ UNCHANGED browser
    \/ \E r \in ReqIds, tok \in issuedAccess : LogoutAuthFails(r, tok) /\ UNCHANGED browser
    \/ \E r \in ReqIds, tok \in issuedAccess : ProtectedFails(r, tok) /\ UNCHANGED browser
    \/ \E r \in ReqIds : Settles(r)

\* The same, on an event loop that runs the continuation of every awaited
\* query once the query has settled.
SpecLive == Init /\ [][NextLive]_vars /\ \A r \in ReqIds : WF_vars(Settles(r))

(* ---------------------------- PUT /users/:id -------------------------- *)

\* The role fields of the bodies clients send to PUT /users/:id: none, one
\* that does not exist, and the two roles of the accounts.  The bodies have
\* no other field.
RoleBodies == {"", InvalidRole, "admin", "vendor"}

\* PUT /users/:id, the two middlewares: authenticateToken and requireAdmin.
UpdateUserAuth(r, tok, id, role) ==
    /\ Arrives(r)
    /\ LET q == [IdleReq EXCEPT !.kind = "updateUser", !.token = tok,
                                !.target = id, !.role = role]
       IN  req' = [req EXCEPT ![r] = Gated(q, tok, RequireAdmin)]
    /\ UNCHANGED <<users, now, ticks, nextUuid, nextId, history>>

\* PUT /users/:id, the handler up to its UPDATE: the SELECT by id, the
\* validation of role, and the test for an empty list of fields.  A body
\* without email and username skips the two uniqueness queries.
UpdateUserSelect(r) ==
    /\ req[r].kind = "updateUser"
    /\ req[r].pc = "select"
    /\ req' = [req EXCEPT ![r] =
          IF SelectById(req[r].target) = {}
          THEN Respond(@, 404, "User not found.")
          ELSE IF req[r].role /= "" /\ req[r].role \notin ValidRoles
          THEN Respond(@, 400, "Invalid role. Must be one of: user, admin, moderator, vendor")
          ELSE IF req[r].role = ""
          THEN Respond(@, 400, "No fields to update.")
          ELSE [@ EXCEPT !.pc = "update"]]
    /\ UNCHANGED <<users, now, ticks, nextUuid, nextId, history>>

\* PUT /users/:id, the UPDATE users SET role = $1 WHERE id = $2 RETURNING
\* ... and the response with the returned row.
UpdateUserCommit(r) ==
    /\ req[r].kind = "updateUser"
    /\ req[r].pc = "update"
    /\ users' = UpdateById(req[r].target, [role |-> req[r].role])
    /\ req' = [req EXCEPT ![r] =
          [Respond(@, 200, "User updated successfully") EXCEPT
              !.outUser = IF SelectById(req[r].target) = {}
                          THEN NoUser
                          ELSE PublicUser(users'[CHOOSE u \in SelectById(req[r].target) : TRUE])]]
    /\ version' = Bump(req[r].target)
    /\ UNCHANGED <<now, ticks, nextUuid, nextId, issuedAccess, issuedRefresh,
                   loggedOut, takenOver, takenOverRefresh, rotated>>

\* The routes of user administration next to the sessions they act on:
\* logins, role changes by PUT /users/:id, and the authenticated route
\* GET /test-protected.
NextAdmin ==
    \/ \E r \in LongReqIds, c \in OwnCredentials : LoginSelect(r, c[1], c[2]) /\ UNCHANGED browser
    \/ \E r \in LongReqIds : LoginUpdate(r) /\ UNCHANGED browser
    \/ \E r \in LongReqIds, tok \in issuedAccess, id \in Targets, role \in RoleBodies : UpdateUserAuth(r, tok, id, role) /\ UNCHANGED browser
    \/ \E r \in LongReqIds : UpdateUserSelect(r) /\ UNCHANGED browser
    \/ \E r \in LongReqIds : UpdateUserCommit(r) /\ UNCHANGED browser
    \/ \E r \in LongReqIds, tok \in issuedAccess : Protected(r, tok) /\ UNCHANGED browser

SpecAdmin == InitLong /\ [][NextAdmin]_vars

(* ----------------------- concurrent registrations --------------------- *)

\* The (username, email, password, role) bodies sent to /register: a new
\* account's data, the same username under another
\* email, and the same email under another username.
NewBodies ==
    {<<UsernameOf(3), EmailOf(3), PasswordOf(3), "user">>,
     <<UsernameOf(3), EmailOf(4), PasswordOf(4), "user">>,
     <<UsernameOf(4), EmailOf(3), PasswordOf(4), "user">>}

\* The body the administrator sends to POST /users: the new account's data.
AdminBodies == {<<UsernameOf(3), EmailOf(3), PasswordOf(3), "user">>}

\* The credentials of the administrator.
AdminCredentials == {<<EmailOf(u), PasswordOf(u)>> : u \in {v \in Users : RoleOf(v) = "admin"}}

\* Registrations and creations by the administrator, next to the login
\* that gives the administrator a session.
NextRegister ==
    \/ \E r \in LongReqIds, c \in AdminCredentials : LoginSelect(r, c[1], c[2]) /\ UNCHANGED browser
    \/ \E r \in LongReqIds : LoginUpdate(r) /\ UNCHANGED browser
    \/ \E r \in LongReqIds, b \in NewBodies : RegisterSelectEmail(r, b) /\ UNCHANGED browser
    \/ \E r \in LongReqIds : RegisterSelectUsername(r) /\ UNCHANGED browser
    \/ \E r \in LongReqIds : RegisterInsert(r) /\ UNCHANGED browser
    \/ \E r \in LongReqIds, tok \in issuedAccess, b \in AdminBodies : CreateUserAuth(r, tok, b) /\ UNCHANGED browser
    \/ \E r \in LongReqIds : CreateUserSelectEmail(r) /\ UNCHANGED browser
    \/ \E r \in LongReqIds : CreateUserSelectUsername(r) /\ UNCHANGED browser
    \/ \E r \in LongReqIds : CreateUserInsert(r) /\ UNCHANGED browser

SpecRegister == InitLong /\ [][NextRegister]_vars

(* ---------------------------------------------------------------------- *)
(*                              Properties                                *)
(* ---------------------------------------------------------------------- *)

\* A login request that passed the credential check and read is_logged_in
\* = FALSE on the row of account u.
LoginReadLoggedOut(r, u) ==
    /\ req[r].kind = "login"
    /\ req[r].pc \in {"update", "done"}
    /\ req[r].user.id = u
    /\ ~req[r].wasLoggedIn

\* C1: two logins with valid credentials that both read the same
\* not-logged-in state of one account (the same row version, so neither
\* finished before the other read) never both return a token pair; when
\* both have answered, one has 200 and the other 409.
C1_ConcurrentLoginOneWinner ==
    \A r1, r2 \in ReqIds, u \in Users :
        ( /\ r1 /= r2
          /\ LoginReadLoggedOut(r1, u) /\ LoginReadLoggedOut(r2, u)
          /\ req[r1].readVersion = req[r2].readVersion
          /\ req[r1].pc = "done" /\ req[r2].pc = "done" )
        => {req[r1].status, req[r2].status} = {200, 409}

\* The access tokens issued for u that authenticateToken accepts now.
LiveAccess(u) == {t \in issuedAccess : t.id = u /\ Authorized(t)}

\* The refresh tokens issued for u that the refresh lookup accepts now.
LiveRefresh(u) == {x \in issuedRefresh : x[2] = u /\ RefreshAccepted(x[1])}

\* C2: single-session invariant I1: for every user, at most one of the
\* access tokens ever issued for the user passes the authorization check and
\* at most one of the refresh tokens ever issued is accepted by refresh.
C2_SingleSession ==
    \A u \in Users :
        /\ Cardinality(LiveAccess(u)) <= 1
        /\ Cardinality(LiveRefresh(u)) <= 1

\* C2 witness: a user for whom two different access tokens with a valid
\* signature and unelapsed embedded expiry, and two refresh tokens, were
\* issued, and exactly one of each is accepted.
C2_Witness ==
    \E u \in Users :
        /\ Cardinality({t \in issuedAccess : t.id = u /\ JwtVerify(t, now)}) >= 2
        /\ Cardinality({x \in issuedRefresh : x[2] = u}) >= 2
        /\ Cardinality(LiveAccess(u)) = 1
        /\ Cardinality(LiveRefresh(u)) = 1

\* C3: once a logout for u has committed, every access token issued for u
\* before that logout is rejected by authenticateToken in every later state.
C3_LoggedOutTokensRejected == \A t \in loggedOut : ~Authorized(t)

\* C4: a confirm-logout-login with valid credentials answers 200 with a
\* token pair whatever is_logged_in was, and after it commits every access
\* token and every refresh token issued for the user before it is rejected.
C4_TakeoverInvalidatesOldPairs ==
    /\ \A r \in ReqIds :
          ( /\ req[r].kind = "confirm" /\ req[r].pc = "done"
            /\ \E u \in Users : /\ req[r].email = EmailOf(u)
                                /\ req[r].password = PasswordOf(u) )
          => (req[r].status = 200 /\ req[r].outAccess /= NoToken
                                  /\ req[r].outRefresh /= NULL)
    /\ \A t \in takenOver : ~Authorized(t)
    /\ \A x \in takenOverRefresh : ~RefreshAccepted(x)

\* C5: a refresh that found the submitted token returns a refresh token
\* different from the submitted one, and from its commit on the submitted
\* token is refused: no row holds it, and every refresh request that
\* arrives with it is answered 403 "Invalid or expired refresh token".
C5_RefreshRotates ==
    /\ \A r \in ReqIds :
          (req[r].kind = "refresh" /\ req[r].status = 200)
          => (req[r].outRefresh /= NULL
              /\ req[r].outRefresh /= req[r].refreshToken)
    /\ \A x \in rotated : ~RefreshAccepted(x)
    /\ \A r \in ReqIds :
          (req[r].kind = "refresh" /\ req[r].wasRotated)
          => ( /\ req[r].pc = "done"
               /\ req[r].status = 403
               /\ req[r].message = "Invalid or expired refresh token"
               /\ req[r].outAccess = NoToken
               /\ req[r].outRefresh = NULL )

\* C5 witness: a refresh returned a pair for a token, and a later refresh
\* with that token, sent before any refresh token can have expired, was
\* refused.
C5_Witness ==
    \E r1, r2 \in ReqIds :
        /\ req[r1].kind = "refresh" /\ req[r1].status = 200
        /\ req[r2].kind = "refresh" /\ req[r2].wasRotated
        /\ req[r2].refreshToken = req[r1].refreshToken
        /\ req[r2].status = 403
        /\ now < RefreshTTL

\* C6: refresh tokens are single-use: of the refresh requests that carry
\* the same refresh token, at most one returns a new token pair.
C6_RefreshSingleUse ==
    \A r1, r2 \in ReqIds :
        ( /\ r1 /= r2
          /\ req[r1].kind = "refresh" /\ req[r2].kind = "refresh"
          /\ req[r1].refreshToken = req[r2].refreshToken
          /\ req[r1].status = 200 )
        => req[r2].status /= 200

\* C7: invariant I2: for every user, is_logged_in is true if and only if
\* access_token and refresh_token are both non-null.
C7_LoggedInIffTokens ==
    \A u \in DOMAIN users :
        users[u].is_logged_in
        <=> (users[u].access_token /= NoToken /\ users[u].refresh_token /= NULL)

\* C8: invariant I3: for every user whose two expiry fields are non-null,
\* access_token_expires_at < refresh_token_expires_at.
C8_AccessExpiresFirst ==
    \A u \in DOMAIN users :
        ( /\ users[u].access_token_expires_at /= NULL
          /\ users[u].refresh_token_expires_at /= NULL )
        => users[u].access_token_expires_at < users[u].refresh_token_expires_at

\* C8 witness: a login, a confirm-logout-login and a refresh have all
\* committed, and a row holds the two expiries a refresh wrote.
C8_Witness ==
    /\ \E r \in ReqIds : req[r].kind = "login" /\ req[r].status = 200
    /\ \E r \in ReqIds : req[r].kind = "confirm" /\ req[r].status = 200
    /\ \E r \in ReqIds :
          /\ req[r].kind = "refresh" /\ req[r].status = 200
          /\ \E u \in DOMAIN users :
                /\ users[u].refresh_token = req[r].outRefresh
                /\ users[u].access_token_expires_at /= NULL
                /\ users[u].refresh_token_expires_at /= NULL

\* Request r is a login that answers in this step from its UPDATE.
LoginReturns(r) ==
    /\ req[r].kind = "login"
    /\ req[r].pc = "update"
    /\ req'[r].pc = "done"

\* C9: when a login returns a token pair, the row of the user after the
\* UPDATE has is_logged_in = TRUE, holds exactly the returned access and
\* refresh token with access expiry < refresh expiry, and last_login is the
\* time of the update; the response carries the id, username, email and
\* role of that row.
C9_LoginCommitsWhatItReturns ==
    [][\A r \in ReqIds :
          LoginReturns(r) =>
             /\ req'[r].status = 200
             /\ req'[r].outAccess /= NoToken
             /\ req'[r].outRefresh /= NULL
             /\ \A u \in DOMAIN users' :
                   users'[u].id = req[r].user.id =>
                      /\ users'[u].is_logged_in
                      /\ users'[u].access_token = req'[r].outAccess
                      /\ users'[u].refresh_token = req'[r].outRefresh
                      /\ users'[u].access_token_expires_at
                            < users'[u].refresh_token_expires_at
                      /\ users'[u].last_login = now
                      /\ req'[r].outUser = PublicUser(users'[u])]_vars

\* C9 witness: a login has returned a pair, after the clock advanced, for a
\* user whose row holds that pair and that last_login.
C9_Witness ==
    \E r \in ReqIds, u \in DOMAIN users :
        /\ req[r].kind = "login" /\ req[r].status = 200
        /\ users[u].id = req[r].user.id
        /\ users[u].access_token = req[r].outAccess
        /\ users[u].refresh_token = req[r].outRefresh
        /\ users[u].last_login = now
        /\ now > 0

\* The row with the id embedded in tok holds tok as its access token and an
\* access expiry that has not elapsed.
StoreMatches(tok) ==
    \E u \in DOMAIN users :
        /\ users[u].id = tok.id
        /\ users[u].access_token = tok
        /\ users[u].access_token_expires_at > now

\* C10: authenticateToken lets a token proceed only if it passes the
\* signature/expiry verification and is the access token stored for the id
\* it embeds and the stored access expiry has not elapsed; a token that
\* passes signature/expiry and fails the store match gets 403 "Invalid or
\* expired token".
C10_AuthorizedOnlyIfStored ==
    \A tok \in PresentableTokens :
        /\ Authorized(tok) => (JwtVerify(tok, now) /\ StoreMatches(tok))
        /\ (JwtVerify(tok, now) /\ ~StoreMatches(tok))
              => ( /\ AuthResult(tok).status = 403
                   /\ AuthResult(tok).message = "Invalid or expired token" )

\* C10 witness: a request to the protected route carried a token whose
\* signature and embedded expiry are still valid and was answered 403, and
\* another token is authorized.
C10_Witness ==
    /\ \E r \in ReqIds :
          /\ req[r].kind = "protected"
          /\ req[r].status = 403
          /\ JwtVerify(req[r].token, now)
          /\ ~StoreMatches(req[r].token)
    /\ \E tok \in issuedAccess : Authorized(tok)

\* Request r answers in this step from the UPDATE of a handler of this kind.
Commits(r, kind) ==
    /\ req[r].kind = kind
    /\ req[r].pc = "update"
    /\ req'[r].pc = "done"

\* Request g is a registration that answered 201 for the account with this
\* id.
Registered(g, id) ==
    /\ req[g].kind = "register"
    /\ req[g].status = 201
    /\ req[g].outUser.id = id

\* C11: round trip: once register(u) has answered 201, a login for u that
\* returns a token pair leaves a state in which authenticateToken authorizes
\* the returned access token and attaches the identity (id, username, email,
\* role) that the registration returned; and a logout that commits leaves a
\* state in which the access token it was sent with is rejected.
C11_RoundTrip ==
    [][/\ \A r, g \in DOMAIN req :
             (Commits(r, "login") /\ Registered(g, req[r].user.id))
             => /\ req'[r].status = 200
                /\ AuthResult(req[r].outAccess)'.status = 200
                /\ AuthResult(req[r].outAccess)'.user = req[g].outUser
       /\ \A r \in DOMAIN req :
             Commits(r, "logout") => ~Authorized(req[r].token)']_vars

\* C11 witness: an account registered, logged in, a request to the
\* protected route with the returned access token was answered 200 with the
\* registered identity, a logout with that token was answered 200, and a
\* request to the protected route with the same token, within the lifetime
\* of the token, was answered 403.
C11_Witness ==
    \E l \in DOMAIN req :
        /\ req[l].kind = "login" /\ req[l].status = 200
        /\ JwtVerify(req[l].outAccess, now)
        /\ \E g \in DOMAIN req :
              /\ Registered(g, req[l].user.id)
              /\ \E p1 \in DOMAIN req :
                    /\ req[p1].kind = "protected"
                    /\ req[p1].token = req[l].outAccess
                    /\ req[p1].status = 200
                    /\ req[p1].outUser = req[g].outUser
        /\ \E o \in DOMAIN req :
              /\ req[o].kind = "logout" /\ req[o].token = req[l].outAccess
              /\ req[o].status = 200
        /\ \E p2 \in DOMAIN req :
              /\ req[p2].kind = "protected"
              /\ req[p2].token = req[l].outAccess
              /\ req[p2].status = 403

\* The roles a gated request's route allows.
AllowedRoles(r) ==
    IF req[r].kind = "delete" THEN RequireAdmin ELSE RequireAdminOrModerator

\* Request r went through authenticateToken, which attached an identity, on
\* a route with a role gate.
GateReached(r) ==
    /\ req[r].kind \in {"getUser", "delete"}
    /\ req[r].user /= NoUser

\* The role gate answered request r itself: 403 "Insufficient permissions".
Forbidden(r) ==
    /\ req[r].pc = "done"
    /\ req[r].status = 403
    /\ req[r].message = "Insufficient permissions"

\* The handler behind the gate ran for request r: it is at one of its
\* queries or has given one of its own answers.
HandlerRan(r) ==
    \/ req[r].pc \in {"select", "delete"}
    \/ req[r].pc = "done" /\ req[r].status \in {200, 400, 404}

\* C12: requireRole(allowed) lets a request proceed iff the role that
\* authenticateToken resolved is in allowed: for every role, on both gates;
\* and for every request that reached a gate, the handler ran iff the role
\* is allowed and otherwise the answer is 403 "Insufficient permissions".
\* So a vendor on the admin-only route always gets 403, and an admin always
\* passes the admin-only and the admin-or-moderator gate.
C12_RoleGate ==
    /\ \A role \in ValidRoles, allowed \in {RequireAdmin, RequireAdminOrModerator} :
          LET user == [id |-> 1, username |-> 1, email |-> 1, role |-> role]
          IN  (RequireRole(allowed, user).status = 200) <=> (role \in allowed)
    /\ \A r \in DOMAIN req :
          GateReached(r) =>
             /\ (req[r].user.role \in AllowedRoles(r)) <=> HandlerRan(r)
             /\ (req[r].user.role \notin AllowedRoles(r)) <=> Forbidden(r)
             /\ (req[r].kind = "delete" /\ req[r].user.role = "vendor")
                   => Forbidden(r)
             /\ req[r].user.role = "admin" => HandlerRan(r)

\* C12 witness: a vendor with an accepted token was refused on the
\* admin-only route, and an admin passed the admin-only gate and the
\* admin-or-moderator gate.
C12_Witness ==
    \E v, a, b \in DOMAIN req :
        /\ req[v].kind = "delete" /\ GateReached(v)
        /\ req[v].user.role = "vendor" /\ Forbidden(v)
        /\ req[a].kind = "delete" /\ GateReached(a)
        /\ req[a].user.role = "admin" /\ req[a].status = 200
        /\ req[b].kind = "getUser" /\ GateReached(b)
        /\ req[b].user.role = "admin" /\ req[b].status = 200

\* The row of u holds an active session.
ActiveSession(u) ==
    /\ users[u].is_logged_in
    /\ users[u].access_token /= NoToken
    /\ users[u].refresh_token /= NULL

\* This step ends or replaces the session of u: one of its session fields
\* changes.
SessionChanges(u) ==
    \/ u \notin DOMAIN users'
    \/ users'[u].is_logged_in /= users[u].is_logged_in
    \/ users'[u].access_token /= users[u].access_token
    \/ users'[u].refresh_token /= users[u].refresh_token
    \/ users'[u].access_token_expires_at /= users[u].access_token_expires_at
    \/ users'[u].refresh_token_expires_at /= users[u].refresh_token_expires_at

\* Request r answers in this step, and it is a confirm-logout-login or it
\* carried the access token or the refresh token of the session of u.
ConfirmOrOwnToken(r, u) ==
    /\ req[r].pc /= "done"
    /\ req'[r].pc = "done"
    /\ \/ req'[r].kind = "confirm"
       \/ req'[r].token = users[u].access_token
       \/ req'[r].refreshToken = users[u].refresh_token

\* C13: a step that ends or replaces the active session of a user is the
\* commit of a confirm-logout-login, or of a request that presented that
\* session's own access token or refresh token; no endpoint nulls or
\* overwrites the session fields on the strength of an email alone.
C13_OnlyTakeoverEndsSession ==
    [][\A u \in DOMAIN users :
          (ActiveSession(u) /\ SessionChanges(u))
          => \E r \in DOMAIN req : ConfirmOrOwnToken(r, u)]_vars

\* Request r arrives in this step as a login with the email and the
\* password of the row of u.
ValidLoginArrives(r, u) ==
    /\ req[r].pc = "idle"
    /\ req'[r].kind = "login"
    /\ req'[r].email = users[u].email
    /\ BcryptCompare(req'[r].password, users[u].password)

\* C14: a login with valid credentials that reads is_logged_in = TRUE on
\* the user's row is answered 409 with action "confirm_logout" and the id,
\* username, email and role of the row, returns no token, issues none, and
\* leaves the users table as it was.
C14_LoginConflict ==
    [][\A r \in DOMAIN req, u \in DOMAIN users :
          (ValidLoginArrives(r, u) /\ users[u].is_logged_in)
          => /\ req'[r].pc = "done"
             /\ req'[r].status = 409
             /\ req'[r].action = "confirm_logout"
             /\ req'[r].outUser = PublicUser(users[u])
             /\ req'[r].outAccess = NoToken
             /\ req'[r].outRefresh = NULL
             /\ users' = users
             /\ UNCHANGED <<nextUuid, issuedAccess, issuedRefresh>>]_vars

\* C14 witness: a login with the valid credentials of a user who holds a
\* session has been answered 409, and the session it met is still in the
\* row.
C14_Witness ==
    \E r, l \in DOMAIN req, u \in DOMAIN users :
        /\ req[r].kind = "login" /\ req[r].status = 409
        /\ req[r].action = "confirm_logout"
        /\ req[r].email = users[u].email
        /\ req[l].kind = "login" /\ req[l].status = 200
        /\ users[u].is_logged_in
        /\ users[u].access_token = req[l].outAccess
        /\ users[u].refresh_token = req[l].outRefresh

\* Request r is an answered login for an email that no row has.
UnknownEmailLogin(r) ==
    /\ req[r].kind = "login"
    /\ req[r].pc = "done"
    /\ req[r].email = UnknownEmail

\* Request r is an answered login for the email of account u with a
\* password that is not the account's.
WrongPasswordLogin(r, u) ==
    /\ req[r].kind = "login"
    /\ req[r].pc = "done"
    /\ req[r].email = EmailOf(u)
    /\ req[r].password /= Missing
    /\ req[r].password /= PasswordOf(u)

\* What the client sees of the answer to request r.
Response(r) ==
    <<req[r].status, req[r].message, req[r].action, req[r].outUser,
      req[r].outAccess, req[r].outRefresh>>

\* C15: the answer to a login for an unknown email and the answer to a
\* login for a known email with a wrong password are the same (status,
\* message and everything else in the body), whatever the session state of
\* the known user was.
C15_SameAnswerForBadCredentials ==
    \A r1, r2 \in DOMAIN req, u \in Users :
        (UnknownEmailLogin(r1) /\ WrongPasswordLogin(r2, u))
        => Response(r1) = Response(r2)

\* C15 witness: a login for an unknown email was answered, and so was a
\* login with a wrong password that arrived after the login of a user who
\* still holds that session.
C15_Witness ==
    \E r1, r2, l \in DOMAIN req, u \in Users :
        /\ UnknownEmailLogin(r1) /\ req[r1].status = 400
        /\ req[l].kind = "login" /\ req[l].status = 200
        /\ req[l].user.id = u
        /\ l < r2
        /\ WrongPasswordLogin(r2, u)
        /\ users[u].is_logged_in
        /\ users[u].access_token = req[l].outAccess

\* Request r arrives in this step as a logout with a token of a user whose
\* logout has committed and whose row says is_logged_in = FALSE.
LogoutArrivesAfterLogout(r) ==
    /\ req[r].pc = "idle"
    /\ req'[r].kind = "logout"
    /\ req'[r].token \in loggedOut
    /\ \E u \in DOMAIN users :
          users[u].id = req'[r].token.id /\ ~users[u].is_logged_in

\* C16: logout is idempotent: a logout for a user who is already logged out
\* (the second logout with the same access token) is not answered with an
\* error, and leaves the users table as it was.
C16_LogoutIdempotent ==
    [][\A r \in DOMAIN req :
          LogoutArrivesAfterLogout(r)
          => /\ ~(req'[r].pc = "done" /\ req'[r].status /= 200)
             /\ users' = users]_vars

\* The columns a refresh writes.
TokenFields ==
    {"access_token", "access_token_expires_at",
     "refresh_token", "refresh_token_expires_at"}

\* C17: a refresh that commits answers 200 and changes at most the four
\* token fields of the row it matched: is_logged_in, last_login, role and
\* every other column of that row, every other row, and the set of rows are
\* as before. A refresh request carries no access token, and whether the
\* lookup accepts it depends on the refresh token alone.
C17_RefreshFrame ==
    [][\A r \in DOMAIN req :
          /\ Commits(r, "refresh") =>
                /\ req'[r].status = 200
                /\ DOMAIN users' = DOMAIN users
                /\ \A u \in DOMAIN users :
                      IF users[u].id = req[r].user.id
                      THEN \A f \in DOMAIN users[u] \ TokenFields :
                              users'[u][f] = users[u][f]
                      ELSE users'[u] = users[u]
          /\ (req[r].pc = "idle" /\ req'[r].kind = "refresh") =>
                /\ req'[r].token = NoToken
                /\ RefreshAccepted(req'[r].refreshToken) <=> req'[r].pc = "update"
                /\ users' = users]_vars

\* C17 witness: a refresh returned a new pair although the access token
\* stored when it looked the row up had expired; the row holds the new
\* pair, the login time of the session's login, and is_logged_in.
C17_Witness ==
    \E r, l \in DOMAIN req, u \in DOMAIN users :
        /\ req[l].kind = "login" /\ req[l].status = 200
        /\ req[r].kind = "refresh" /\ req[r].status = 200
        /\ req[r].refreshToken = req[l].outRefresh
        /\ req[r].accessWasExpired
        /\ users[u].id = req[r].user.id
        /\ users[u].access_token = req[r].outAccess
        /\ users[u].refresh_token = req[r].outRefresh
        /\ users[u].is_logged_in
        /\ users[u].last_login = req[l].outAccess.iat
        /\ users[u].last_login < now

\* Request r is a refresh and request q a logout or a confirm-logout-login
\* for the same user; both answered 200; q committed after r had read the
\* row (q read a version of the row that is not older than the one r read);
\* and the two are the only writes to the row since r read it.
RefreshOverlaps(r, q) ==
    /\ req[r].kind = "refresh" /\ req[r].status = 200
    /\ req[q].kind \in {"logout", "confirm"} /\ req[q].status = 200
    /\ req[q].user.id = req[r].user.id
    /\ req[q].readVersion >= req[r].readVersion
    /\ version[req[r].user.id] = req[r].readVersion + 2

\* C18: no lost update: when a refresh read the row before a logout or a
\* confirm-logout-login for the same user committed, and both have
\* completed, the stored session is the one the logout or the takeover
\* produced: no tokens after the logout, the takeover's pair after the
\* takeover.
C18_NoLostUpdate ==
    \A r, q \in DOMAIN req, u \in DOMAIN users :
        (RefreshOverlaps(r, q) /\ users[u].id = req[r].user.id)
        => IF req[q].kind = "logout"
           THEN /\ users[u].access_token = NoToken
                /\ users[u].refresh_token = NULL
           ELSE /\ users[u].access_token = req[q].outAccess
                /\ users[u].refresh_token = req[q].outRefresh

\* The first response to the api() call c was InvalidToken: 403 from
\* authenticateToken.
GotInvalidToken(c) ==
    /\ call[c].firstStatus = 403
    /\ call[c].firstMessage = "Invalid or expired token"

\* The first response to the api() call c was Forbidden: 403 from the role
\* gate.
GotForbidden(c) ==
    /\ call[c].firstStatus = 403
    /\ call[c].firstMessage = "Insufficient permissions"

\* C19: client retry contract: an api() call whose first response is
\* InvalidToken sends at most one refresh and re-sends its request at most
\* once; when the retry has failed too, it has sent exactly one refresh and
\* the failure it throws is "session expired".
C19_ClientRetryContract ==
    \A c \in CallIds :
        GotInvalidToken(c) =>
           /\ call[c].refreshes <= 1
           /\ call[c].sends <= 2
           /\ (call[c].pc = "done" /\ call[c].sends = 2 /\ ~call[c].ok)
                 => (call[c].refreshes = 1 /\ call[c].error = SessionExpired)

\* C20: an api() call whose first response is Forbidden surfaces it and
\* does not retry: it sends no refresh, does not re-send its request, and
\* ends by throwing the message of that response.
C20_ForbiddenNotRetried ==
    \A c \in CallIds :
        GotForbidden(c) =>
           /\ call[c].refreshes = 0
           /\ call[c].sends = 1
           /\ call[c].pc = "done"
           /\ call[c].error = "Insufficient permissions"

\* Request r is a DELETE /users/:id of an authorized admin whose DELETE
\* statement runs in this step.
AdminDeletes(r) ==
    /\ req[r].kind = "delete"
    /\ req[r].pc = "delete"
    /\ req'[r].pc = "done"
    /\ req[r].user.role = "admin"

\* C21: a row leaves the users table only in the step in which the DELETE
\* of a DELETE /users/:id request of an authorized admin runs, for the id
\* that request names and never for the admin's own id; a deletion request
\* that names the requester's own id is answered 400 when the handler finds
\* the row, and the row stays.
C21_OnlyAdminDeletes ==
    [][/\ \A u \in DOMAIN users :
             u \notin DOMAIN users' =>
                \E r \in DOMAIN req :
                   /\ AdminDeletes(r)
                   /\ req[r].target = users[u].id
                   /\ req[r].user.id /= users[u].id
       /\ \A r \in DOMAIN req :
             ( /\ req[r].kind = "delete" /\ req[r].pc = "select"
               /\ req'[r].pc /= "select"
               /\ req[r].target = req[r].user.id
               /\ SelectById(req[r].target) /= {} )
             => /\ req'[r].pc = "done"
                /\ req'[r].status = 400
                /\ req'[r].message = "You cannot delete your own account."
                /\ users' = users]_vars

\* C21 witness: an admin's deletion of another account was answered 200 and
\* that row is gone, and the admin's deletion of the own account was
\* answered 400 and that row is in place.
C21_Witness ==
    \E d, o \in DOMAIN req :
        /\ req[d].kind = "delete" /\ req[d].status = 200
        /\ req[d].user.role = "admin"
        /\ SelectById(req[d].target) = {}
        /\ req[o].kind = "delete" /\ req[o].status = 400
        /\ req[o].target = req[o].user.id
        /\ SelectById(req[o].target) /= {}

\* Some row holds rt as its refresh token.
RefreshStored(rt) ==
    \E u \in DOMAIN users : users[u].refresh_token = rt

\* Some row holds rt as its refresh token with a refresh expiry that has
\* not elapsed.
RefreshStoredUnexpired(rt) ==
    \E u \in DOMAIN users :
        /\ users[u].refresh_token = rt
        /\ users[u].refresh_token_expires_at > now

\* C22: a refresh with a token that no row stores, or that a row stores
\* with an elapsed refresh expiry, is answered 403 "Invalid or expired
\* refresh token", returns no tokens, issues none, and leaves the users
\* table as it was.
C22_RefreshRejected ==
    [][\A r \in DOMAIN req :
          ( /\ req[r].pc = "idle"
            /\ req'[r].kind = "refresh"
            /\ req'[r].refreshToken /= Missing
            /\ ~RefreshStoredUnexpired(req'[r].refreshToken) )
          => /\ req'[r].pc = "done"
             /\ req'[r].status = 403
             /\ req'[r].message = "Invalid or expired refresh token"
             /\ req'[r].outAccess = NoToken
             /\ req'[r].outRefresh = NULL
             /\ users' = users
             /\ UNCHANGED <<nextUuid, issuedAccess, issuedRefresh>>]_vars

\* C22 witness: a refresh with a uuid that no row stores and a refresh with
\* the stored token of a session whose refresh expiry has elapsed were both
\* answered 403, and the row still holds that session.
C22_Witness ==
    \E a, b \in DOMAIN req, u \in DOMAIN users :
        /\ req[a].kind = "refresh" /\ req[a].status = 403
        /\ ~RefreshStored(req[a].refreshToken)
        /\ req[b].kind = "refresh" /\ req[b].status = 403
        /\ users[u].refresh_token = req[b].refreshToken
        /\ users[u].refresh_token_expires_at <= now
        /\ users[u].is_logged_in

\* Request r arrives in this step as a confirm-logout-login with an email
\* and a password of which the email is no row's or the password is not the
\* one of the row with the email.
BadConfirmArrives(r) ==
    /\ req[r].pc = "idle"
    /\ req'[r].kind = "confirm"
    /\ req'[r].email /= Missing
    /\ req'[r].password /= Missing
    /\ \A u \in DOMAIN users :
          users[u].email = req'[r].email
          => ~BcryptCompare(req'[r].password, users[u].password)

\* C23: a confirm-logout-login with an unknown email or a wrong password is
\* answered 400 "Invalid credentials", returns no tokens, issues none, and
\* leaves the users table, and with it the session of the addressed user,
\* as it was.
C23_ConfirmRejected ==
    [][\A r \in DOMAIN req :
          BadConfirmArrives(r)
          => /\ req'[r].pc = "done"
             /\ req'[r].status = 400
             /\ req'[r].message = "Invalid credentials"
             /\ req'[r].outAccess = NoToken
             /\ req'[r].outRefresh = NULL
             /\ users' = users
             /\ UNCHANGED <<nextUuid, issuedAccess, issuedRefresh>>]_vars

\* C23 witness: a confirm-logout-login for an unknown email and one with a
\* wrong password for a user who holds a session were answered 400, and the
\* row holds the session of the user's login.
C23_Witness ==
    \E a, b, l \in DOMAIN req, u \in Users :
        /\ req[a].kind = "confirm" /\ req[a].status = 400
        /\ req[a].email = UnknownEmail
        /\ req[b].kind = "confirm" /\ req[b].status = 400
        /\ req[b].email = EmailOf(u) /\ req[b].password = WrongPassword
        /\ req[l].kind = "login" /\ req[l].status = 200 /\ req[l].user.id = u
        /\ l < b
        /\ users[u].is_logged_in
        /\ users[u].access_token = req[l].outAccess
        /\ users[u].refresh_token = req[l].outRefresh
        /\ users[u].last_login = req[l].outAccess.iat


\* C24: when a query of the store rejects inside a login, a
\* confirm-logout-login, a refresh, a logout or the authorization check,
\* the request is answered in that step with 500 "Server error" and nothing
\* else: no token pair, no user, no detail of the error; the table and the
\* record of issued tokens are as they were, and the request takes no
\* further step.
C24_StoreFailure ==
    [][\A r \in DOMAIN req :
          /\ (~req[r].threw /\ req'[r].threw)
             => /\ req'[r].pc = "done"
                /\ req'[r].status = 500
                /\ req'[r].message = "Server error"
                /\ req'[r].action = ""
                /\ req'[r].outAccess = NoToken
                /\ req'[r].outRefresh = NULL
                /\ req'[r].outUser = NoUser
                /\ users' = users
                /\ UNCHANGED <<nextUuid, issuedAccess, issuedRefresh>>
          /\ req[r].threw => req'[r] = req[r]]_vars

\* C24 witness: a refresh whose UPDATE rejected and a logout whose
\* authorization query rejected have both been answered, and the session
\* the logout presented is still in the table.
C24_Witness ==
    \E a, b \in DOMAIN req, u \in Users :
        /\ req[a].threw /\ req[a].kind = "refresh" /\ req[a].user /= NoUser
        /\ req[b].threw /\ req[b].kind = "logout" /\ req[b].status = 500
        /\ users[u].is_logged_in
        /\ users[u].access_token = req[b].token


\* Stage a occurs in the sequence st, and before every occurrence of b.
Before(a, b, st) ==
    /\ \E i \in DOMAIN st : st[i] = a
    /\ \A j \in DOMAIN st : st[j] = b => \E i \in 1 .. (j - 1) : st[i] = a

\* Stage a occurs in the sequence st.
Visits(st, a) == \E i \in DOMAIN st : st[i] = a

\* Request r arrives in this step on a route behind authenticateToken.
AuthenticatedArrives(r) ==
    /\ req[r].pc = "idle"
    /\ req'[r].kind \in {"logout", "protected", "getUser", "delete"}

\* C25: a request behind authenticateToken goes through the stages NoToken,
\* SignatureCheck, StoreMatch, Authorized in that order.  Without a bearer
\* token it is answered 401 with no signature check and no store read; with
\* a token that fails jwt.verify it is answered 403 with no store read; and
\* the role gate and the handler run only after Authorized.
C25_StageOrder ==
    [][\A r \in DOMAIN req :
          AuthenticatedArrives(r)
          => LET st == req'[r].stages
                 tok == req'[r].token
             IN  /\ st[1] = "NoToken"
                 /\ Visits(st, "SignatureCheck") => Before("NoToken", "SignatureCheck", st)
                 /\ Visits(st, "StoreMatch") => Before("SignatureCheck", "StoreMatch", st)
                 /\ Visits(st, "Authorized") => Before("StoreMatch", "Authorized", st)
                 /\ tok = NoToken
                    => /\ req'[r].status = 401
                       /\ req'[r].pc = "done"
                       /\ ~Visits(st, "SignatureCheck")
                       /\ ~Visits(st, "StoreMatch")
                 /\ (tok /= NoToken /\ ~JwtVerify(tok, now))
                    => /\ req'[r].status = 403
                       /\ req'[r].pc = "done"
                       /\ ~Visits(st, "StoreMatch")
                 /\ Visits(st, "requireRole") => Before("Authorized", "requireRole", st)
                 /\ Visits(st, "handler") => Before("Authorized", "handler", st)
                 /\ (req'[r].pc /= "done" \/ req'[r].user /= NoUser)
                    => Visits(st, "Authorized")]_vars

\* C25 witness: one request without a token was answered 401, one with a
\* token of another key 403, and one with the current token of an admin
\* passed the role gate and its handler answered.
C25_Witness ==
    /\ \E a \in DOMAIN req :
          /\ req[a].kind = "delete" /\ req[a].token = NoToken
          /\ req[a].stages = <<"NoToken">>
    /\ \E b \in DOMAIN req :
          /\ req[b].kind = "delete" /\ req[b].token = Forged(1)
          /\ req[b].stages = <<"NoToken", "SignatureCheck">>
    /\ \E d \in DOMAIN req :
          /\ req[d].kind = "delete" /\ req[d].pc = "done" /\ req[d].status = 200
          /\ Visits(req[d].stages, "requireRole")
          /\ Visits(req[d].stages, "handler")


\* The identity a token carries in its payload.
Payload(tok) ==
    [id |-> tok.id, username |-> tok.username, email |-> tok.email,
     role |-> tok.role]

\* C26: when authenticateToken authorizes a request, the identity it
\* attaches (id, username, email, role, is_logged_in) is that of the row
\* whose id is the token's id and whose access_token is the presented
\* token, as the table holds it in the step of the check; the payload of
\* the token decides nothing but the id.
C26_IdentityFromStore ==
    [][\A r \in DOMAIN req :
          (AuthenticatedArrives(r) /\ req'[r].user /= NoUser)
          => \E u \in DOMAIN users :
                /\ users[u].id = req'[r].token.id
                /\ users[u].access_token = req'[r].token
                /\ req'[r].user = PublicUser(users[u])
                /\ req'[r].wasLoggedIn = users[u].is_logged_in]_vars

\* C26 witness: a request was authorized with a token whose payload names
\* another role than the row had by then, and it carries the role of the
\* row.
C26_Witness ==
    \E r \in DOMAIN req, u \in DOMAIN users :
        /\ req[r].kind = "protected" /\ req[r].status = 200
        /\ req[r].token.id = u
        /\ req[r].token.role /= users[u].role
        /\ req[r].user = PublicUser(users[u])
        /\ req[r].user /= Payload(req[r].token)


\* C27: the access token a successful refresh returns is new: it is not the
\* one the row held before the refresh committed, and it is none of the
\* access tokens issued before, for any user, whatever the clock shows.
C27_RefreshTokenFresh ==
    [][\A r \in DOMAIN req :
          Commits(r, "refresh")
          => /\ req'[r].status = 200
             /\ req'[r].outAccess \notin issuedAccess
             /\ \A u \in DOMAIN users :
                   users[u].id = req[r].user.id
                   => users[u].access_token /= req'[r].outAccess]_vars


\* C28: a logout that commits answers 200, and in the row of the user that
\* authenticateToken attached it nulls access_token, access_token_expires_at,
\* refresh_token and refresh_token_expires_at and sets is_logged_in to
\* false; last_login, role, id, username, email and password of that row,
\* every other row, and the set of rows are as before.
C28_LogoutFrame ==
    [][\A r \in DOMAIN req :
          Commits(r, "logout")
          => /\ req'[r].status = 200
             /\ DOMAIN users' = DOMAIN users
             /\ \A u \in DOMAIN users :
                   IF users[u].id = req[r].user.id
                   THEN users'[u] = [users[u] EXCEPT
                            !.access_token = NoToken,
                            !.access_token_expires_at = NULL,
                            !.refresh_token = NULL,
                            !.refresh_token_expires_at = NULL,
                            !.is_logged_in = FALSE]
                   ELSE users'[u] = users[u]]_vars

\* C28 witness: a logout was answered 200; the row of its user has no
\* tokens, is_logged_in false and the last_login of the login before it,
\* and the other user's session is in the table as its login wrote it.
C28_Witness ==
    \E o, l, m \in DOMAIN req, u, v \in DOMAIN users :
        /\ u /= v
        /\ req[l].kind = "login" /\ req[l].status = 200 /\ req[l].user.id = u
        /\ req[m].kind = "login" /\ req[m].status = 200 /\ req[m].user.id = v
        /\ req[o].kind = "logout" /\ req[o].status = 200 /\ req[o].user.id = u
        /\ req[o].token = req[l].outAccess
        /\ ~users[u].is_logged_in
        /\ users[u].access_token = NoToken
        /\ users[u].refresh_token = NULL
        /\ users[u].last_login = req[l].outAccess.iat
        /\ users[u].role = req[l].user.role
        /\ users[v].is_logged_in
        /\ users[v].access_token = req[m].outAccess
        /\ users[v].refresh_token = req[m].outRefresh


\* Request r is a login that is answered in this step without a token pair.
LoginFails(r) ==
    /\ req[r].pc /= "done"
    /\ req'[r].pc = "done"
    /\ req'[r].kind = "login"
    /\ req'[r].outAccess = NoToken

\* C29: a login that returns no pair (missing fields, unknown email, wrong
\* password, 409 for an account that is logged in) leaves the whole table
\* as it was; and last_login of a row changes only in the step in which a
\* login or a confirm-logout-login for that user commits and returns a pair.
C29_FailedLoginFrame ==
    [][/\ \A r \in DOMAIN req :
             LoginFails(r)
             => /\ req'[r].status \in {400, 409}
                /\ req'[r].outRefresh = NULL
                /\ users' = users
       /\ \A u \in DOMAIN users :
             (u \in DOMAIN users' /\ users'[u].last_login /= users[u].last_login)
             => \E r \in DOMAIN req :
                   /\ Commits(r, "login") \/ Commits(r, "confirm")
                   /\ req[r].user.id = users[u].id
                   /\ req'[r].status = 200
                   /\ req'[r].outAccess /= NoToken
                   /\ req'[r].outRefresh /= NULL
                   /\ users'[u].last_login = now]_vars

\* C29 witness: a login for a user with a session was answered 409 and one
\* with a wrong password 400, the clock has advanced since the session was
\* issued, and the row has the last_login of the login that returned the
\* pair.
C29_Witness ==
    \E l, a, b \in DOMAIN req, u \in Users :
        /\ req[l].kind = "login" /\ req[l].status = 200 /\ req[l].user.id = u
        /\ req[a].kind = "login" /\ req[a].status = 409 /\ req[a].email = EmailOf(u)
        /\ req[b].kind = "login" /\ req[b].status = 400
        /\ req[b].email = EmailOf(u) /\ req[b].password = WrongPassword
        /\ l < a /\ l < b
        /\ now > req[l].outAccess.iat
        /\ users[u].last_login = req[l].outAccess.iat
        /\ users[u].access_token = req[l].outAccess


\* The row of u is logged in and both its tokens have expired.
Stale(u) ==
    /\ users[u].is_logged_in
    /\ users[u].access_token_expires_at <= now
    /\ users[u].refresh_token_expires_at <= now

\* Request r arrives in this step as a refresh with the refresh token rt.
RefreshArrives(r, rt) ==
    /\ req[r].pc = "idle"
    /\ req'[r].kind = "refresh"
    /\ req'[r].refreshToken = rt

\* C30: expiry is passive.  A step of the clock changes no row.  While a row
\* is logged in with both tokens expired, its access token is rejected by
\* authenticateToken and its refresh token by the refresh lookup, a request
\* that presents either is answered 403, every login with the user's valid
\* credentials is answered 409 and changes nothing, and is_logged_in stays
\* true unless a logout that was authorized earlier commits.
C30_PassiveExpiry ==
    [][/\ now' /= now => users' = users
       /\ \A u \in DOMAIN users :
             Stale(u)
             => /\ ~Authorized(users[u].access_token)
                /\ ~RefreshAccepted(users[u].refresh_token)
                /\ \A r \in DOMAIN req :
                      /\ (AuthenticatedArrives(r) /\ req'[r].token = users[u].access_token)
                         => (req'[r].status = 403 /\ users' = users)
                      /\ RefreshArrives(r, users[u].refresh_token)
                         => (req'[r].status = 403 /\ users' = users)
                      /\ ValidLoginArrives(r, u)
                         => (req'[r].status = 409 /\ users' = users)
                /\ (u \in DOMAIN users' /\ ~users'[u].is_logged_in)
                   => \E r \in DOMAIN req :
                         Commits(r, "logout") /\ req[r].user.id = users[u].id]_vars

\* C30 witness: the session a login created has outlived both its tokens;
\* a refresh with its refresh token was answered 403 and a later login with
\* the valid credentials 409, and the row still holds the expired pair with
\* is_logged_in true.
C30_Witness ==
    \E l, b, c \in DOMAIN req, u \in Users :
        /\ l < b /\ b < c
        /\ req[l].kind = "login" /\ req[l].status = 200 /\ req[l].user.id = u
        /\ req[b].kind = "refresh" /\ req[b].status = 403
        /\ req[b].refreshToken = req[l].outRefresh
        /\ req[c].kind = "login" /\ req[c].status = 409
        /\ req[c].email = EmailOf(u)
        /\ Stale(u)
        /\ users[u].access_token = req[l].outAccess
        /\ users[u].refresh_token = req[l].outRefresh


InFlight(r) == req[r].pc \notin {"idle", "done"}

\* The request went through authenticateToken.
BehindAuthenticateToken(r) == req[r].kind \in {"logout", "protected"}

\* C32: every request to login, confirm-logout-login, refresh-token, logout
\* or the protected route ends with exactly one response: never more than
\* one is sent, a request has ended iff one was sent, authenticateToken
\* either responds itself or calls next() and never both, also when a query
\* of the store rejects; and every request that waits for a query ends.
C32_OneOutcome ==
    /\ [](\A r \in DOMAIN req :
            /\ req[r].sent <= 1
            /\ req[r].pc = "done" <=> req[r].sent = 1
            /\ (BehindAuthenticateToken(r) /\ ~Visits(req[r].stages, "Authorized"))
               => /\ req[r].pc = "done"
                  /\ req[r].status \in {401, 403, 500}
                  /\ ~Visits(req[r].stages, "handler")
            /\ (BehindAuthenticateToken(r) /\ Visits(req[r].stages, "Authorized"))
               => /\ Visits(req[r].stages, "handler")
                  /\ req[r].status \in {0, 200, 500})
    /\ \A r \in ReqIds : InFlight(r) ~> (req[r].pc = "done" /\ req[r].sent = 1)

\* C32 witness: a login has ended with the one response of its handler, a
\* logout that had been authorized and waited for its UPDATE with the one
\* response of its catch block, and a request without a token with the one
\* response of authenticateToken.
C32_Witness ==
    \E a, b, c \in DOMAIN req :
        /\ req[a].kind = "login" /\ req[a].status = 200 /\ req[a].sent = 1
        /\ req[b].kind = "logout" /\ req[b].threw /\ req[b].sent = 1
        /\ Visits(req[b].stages, "handler")
        /\ req[c].kind = "protected" /\ req[c].status = 401 /\ req[c].sent = 1


\* The roles the gate of a route lets through.
GateOf(kind) ==
    IF kind = "getUser" THEN RequireAdminOrModerator ELSE RequireAdmin

\* Request r arrives in this step on a route with a role gate.
GatedArrives(r) ==
    /\ req[r].pc = "idle"
    /\ req'[r].kind \in {"getUser", "delete", "updateUser", "createUser"}

\* C33: the role gate decides on the role stored in the row of the user at
\* the time of the request, whatever role the payload of the token names:
\* a request with an authorized token passes the gate iff the role of the
\* row is allowed, and is answered 403 "Insufficient permissions"
\* otherwise.  So after PUT /users/:id changed the role of u, the next
\* request with u's token is gated by the new role.
C33_GateUsesStoredRole ==
    [][\A r \in DOMAIN req :
          (GatedArrives(r) /\ Authorized(req'[r].token))
          => \E u \in DOMAIN users :
                /\ users[u].id = req'[r].token.id
                /\ users[u].access_token = req'[r].token
                /\ IF users[u].role \in GateOf(req'[r].kind)
                   THEN req'[r].pc = "select" /\ req'[r].sent = 0
                   ELSE /\ req'[r].pc = "done"
                        /\ req'[r].status = 403
                        /\ req'[r].message = "Insufficient permissions"]_vars

\* C33 witness: PUT /users/:id made a vendor an admin, and a request with
\* the token the vendor had been issued before, whose payload still names
\* the role vendor, passed the admin gate.
C33_Witness ==
    \E p \in DOMAIN req :
        /\ req[p].kind = "updateUser" /\ req[p].status = 200
        /\ req[p].role = "admin"
        /\ \E r \in DOMAIN req :
              /\ r > p
              /\ req[r].kind = "updateUser"
              /\ req[r].token.id = req[p].target
              /\ req[r].token.role = "vendor"
              /\ req[r].user.role = "admin"
              /\ Visits(req[r].stages, "handler")


\* The session columns of a row.
SessionOf(row) ==
    <<row.access_token, row.access_token_expires_at, row.refresh_token,
      row.refresh_token_expires_at, row.is_logged_in, row.last_login>>

\* Request r is a session operation whose UPDATE commits in this step.
SessionCommit(r) ==
    \/ Commits(r, "login")
    \/ Commits(r, "confirm")
    \/ Commits(r, "refresh")
    \/ Commits(r, "logout")

\* C34: sessions of different users are isolated.  The UPDATE of a login, a
\* confirm-logout-login, a refresh or a logout for one user leaves the
\* session columns of every other row as they were, and a session column
\* changes only by such an UPDATE for the user of the row; the pair such an
\* operation returns is issued for the user it acted for; and an access
\* token is authorized only as the user it was issued for.
C34_SessionIsolation ==
    [][/\ \A r \in DOMAIN req :
             SessionCommit(r)
             => /\ \A u \in DOMAIN users :
                      users[u].id /= req[r].user.id
                      => SessionOf(users'[u]) = SessionOf(users[u])
                /\ req'[r].outAccess /= NoToken
                   => req'[r].outAccess.id = req[r].user.id
       /\ \A u \in DOMAIN users :
             SessionOf(users'[u]) /= SessionOf(users[u])
             => \E r \in DOMAIN req :
                   SessionCommit(r) /\ req[r].user.id = users[u].id
       /\ \A r \in DOMAIN req :
             (req[r].kind \in {"login", "confirm"} /\ req[r].user /= NoUser)
             => req[r].user.email = req[r].email
       /\ \A tok \in issuedAccess :
             Authorized(tok)
             => /\ AuthResult(tok).user.id = tok.id
                /\ AuthResult(tok).user.email = tok.email
       /\ \A r \in DOMAIN req :
             (AuthenticatedArrives(r) /\ req'[r].user /= NoUser)
             => req'[r].user.id = req'[r].token.id]_vars

\* C34 witness: two users hold sessions; a refresh for the first has
\* rotated its pair, the session of the second is in the table as its
\* login wrote it, and the token of the second is authorized as the second.
C34_Witness ==
    \E a, b, f \in DOMAIN req, u, v \in Users :
        /\ u /= v
        /\ req[a].kind = "login" /\ req[a].status = 200 /\ req[a].user.id = u
        /\ req[b].kind = "login" /\ req[b].status = 200 /\ req[b].user.id = v
        /\ b < f
        /\ req[f].kind = "refresh" /\ req[f].status = 200 /\ req[f].user.id = u
        /\ users[u].refresh_token = req[f].outRefresh
        /\ users[v].access_token = req[b].outAccess
        /\ users[v].refresh_token = req[b].outRefresh
        /\ users[v].last_login = req[b].outAccess.iat
        /\ Authorized(req[b].outAccess)
        /\ AuthResult(req[b].outAccess).user.id = v


\* Two api() calls overlapped: both got 403, both sent a refresh with the
\* refresh token rt of localStorage, and both have ended.
BothRefreshed(rt) ==
    /\ \A c \in DOMAIN call :
          /\ call[c].pc = "done"
          /\ call[c].firstStatus = 403
          /\ call[c].refreshes = 1
    /\ \E r1, r2 \in DOMAIN req :
          /\ r1 /= r2
          /\ req[r1].kind = "refresh" /\ req[r1].refreshToken = rt
          /\ req[r2].kind = "refresh" /\ req[r2].refreshToken = rt
    /\ \A r \in DOMAIN req : req[r].kind = "refresh" => req[r].refreshToken = rt

\* The session of the row of u can still be continued: the row is logged in
\* and its refresh token has not expired.
SessionValid(u) ==
    /\ users[u].is_logged_in
    /\ users[u].refresh_token /= NULL
    /\ users[u].refresh_token_expires_at > now

Deleted(u) == u \notin DOMAIN users

\* C36: once the row of a user is deleted, authenticateToken rejects every
\* access token issued for that user and the refresh lookup rejects every
\* refresh token issued for that user; a request that arrives with such an
\* access token is answered 403 "Invalid or expired token", a refresh that
\* arrives with such a refresh token 403 "Invalid or expired refresh token";
\* and no step of a login, refresh or logout puts the row back.
C36_DeletedUserRejected ==
    /\ [](\A u \in Users :
            Deleted(u)
            => /\ \A t \in issuedAccess :
                     t.id = u => /\ AuthResult(t).status = 403
                                 /\ AuthResult(t).message = "Invalid or expired token"
               /\ \A x \in issuedRefresh : x[2] = u => ~RefreshAccepted(x[1]))
    /\ [][\A u \in Users :
            Deleted(u)
            => /\ Deleted(u)'
               /\ \A r \in DOMAIN req :
                     /\ (AuthenticatedArrives(r) /\ req'[r].token.id = u)
                        => /\ req'[r].pc = "done"
                           /\ req'[r].status = 403
                           /\ req'[r].message = "Invalid or expired token"
                     /\ \A x \in issuedRefresh :
                           (x[2] = u /\ RefreshArrives(r, x[1]))
                           => /\ req'[r].pc = "done"
                              /\ req'[r].status = 403
                              /\ req'[r].message = "Invalid or expired refresh token"]_vars

\* An admin deleted the row of the vendor, who had logged in; afterwards a
\* protected request with the vendor's access token and a refresh with the
\* vendor's refresh token were both answered 403.
C36_Witness ==
    /\ Deleted(2)
    /\ \E d, p, f \in DOMAIN req :
          /\ d < p /\ d < f
          /\ req[d].kind = "delete" /\ req[d].status = 200 /\ req[d].target = 2
          /\ req[p].kind = "protected" /\ req[p].token.id = 2
          /\ req[p].token \in issuedAccess /\ req[p].status = 403
          /\ req[f].kind = "refresh" /\ <<req[f].refreshToken, 2>> \in issuedRefresh
          /\ req[f].status = 403


\* Request g returned the refresh token rt (a login, a takeover or a
\* refresh that answered 200); its access token carries the second of issue.
Returned(g, rt) ==
    /\ req[g].status = 200
    /\ req[g].kind \in {"login", "confirm", "refresh"}
    /\ req[g].outRefresh = rt

\* Request r arrives in this step behind authenticateToken with the token tok.
BearerArrives(r, tok) ==
    /\ req[r].pc = "idle"
    /\ req'[r].kind \in {"logout", "protected"}
    /\ req'[r].token = tok

\* C37: authenticateToken accepts no access token 5 minutes or more after
\* jwt.sign issued it, and the refresh lookup accepts no refresh token 15
\* minutes or more after the request that returned it generated it, whatever
\* ran in between; a request that arrives with a token that old is answered
\* 403.
C37_LifetimeLimits ==
    /\ [](/\ \A t \in issuedAccess : Authorized(t) => now < t.iat + 5 * 60
          /\ \A g \in DOMAIN req :
                (Returned(g, req[g].outRefresh) /\ RefreshAccepted(req[g].outRefresh))
                => now < req[g].outAccess.iat + 15 * 60)
    /\ [][\A r \in DOMAIN req :
            /\ \A t \in issuedAccess :
                  (BearerArrives(r, t) /\ now >= t.iat + 5 * 60)
                  => req'[r].pc = "done" /\ req'[r].status = 403
            /\ \A g \in DOMAIN req :
                  (/\ Returned(g, req[g].outRefresh)
                   /\ RefreshArrives(r, req[g].outRefresh)
                   /\ now >= req[g].outAccess.iat + 15 * 60)
                  => req'[r].pc = "done" /\ req'[r].status = 403]_vars

\* A login returned a pair; its access token was presented 5 minutes later
\* and its refresh token 15 minutes or more after the login, and both
\* requests were answered 403 although no logout or other login had run.
C37_Witness ==
    \E g, p, f \in DOMAIN req :
        /\ req[g].kind = "login" /\ req[g].status = 200
        /\ req[p].kind = "protected" /\ req[p].token = req[g].outAccess
        /\ req[p].status = 403
        /\ req[f].kind = "refresh" /\ req[f].refreshToken = req[g].outRefresh
        /\ req[f].status = 403
        /\ now >= req[g].outAccess.iat + 15 * 60


\* C38: requireRole never calls next() for a request with no identity
\* attached: run without a successful authenticateToken before it, it
\* responds 401 "Authentication required" and the handler is not entered.
C38_NoIdentityNoNext ==
    \A r \in DOMAIN req :
        (req[r].kind = "gate" /\ req[r].user = NoUser)
        => /\ req[r].pc = "done"
           /\ req[r].status = 401
           /\ req[r].message = "Authentication required"
           /\ req[r].sent = 1
           /\ ~Visits(req[r].stages, "handler")

\* requireRole ran on a request with no identity and answered 401, on one
\* with the vendor's identity and answered 403, and on one with the admin's
\* identity and called next().
C38_Witness ==
    \E a, b, c \in DOMAIN req :
        /\ req[a].kind = "gate" /\ req[a].user = NoUser /\ req[a].status = 401
        /\ req[b].kind = "gate" /\ req[b].user.role = "vendor" /\ req[b].status = 403
        /\ req[c].kind = "gate" /\ req[c].user.role = "admin"
        /\ Visits(req[c].stages, "handler")

=============================================================================
